---- MODULE Spec2Model ----
(***************************************************************************)
(* Edge-docking window manager of Side-Markdown (electron/main.ts) and the *)
(* settings sanitiser it relies on (electron/settings.ts).                 *)
(*                                                                         *)
(* Pixel quantities are JavaScript numbers.  They are kept here as         *)
(* integers counted in 1/Sub of a pixel, so that a fractional setting      *)
(* (100.5px) and the effect of Math.round on it can be represented.        *)
(* PX(n) is the whole pixel count n.  Window bounds, display geometry and  *)
(* cursor points reported by the toolkit are always whole pixels.          *)
(***************************************************************************)
EXTENDS Integers, Sequences, FiniteSets, TLC

\* ---------------------------------------------------------------- bounds
\* sub-pixel resolution of the number model (2 = half pixels)
Sub == 2
\* cap on the number of outstanding setBoundsInternal releases
MaxOps == 1
\* Date.now() is drawn from 1..MaxClock
MaxClock == 1
\* restart requests the dev-electron watcher receives
MaxRestarts == 3

\* ------------------------------------------------------ program constants
DOCK_MARGIN_PX == 10
DOCK_EDGE_TRIGGER_PX == 2

PX(n) == n * Sub

Max2(a, b) == IF a >= b THEN a ELSE b
Min2(a, b) == IF a <= b THEN a ELSE b

\* Math.round on a number held in 1/Sub pixels: floor(v + 0.5)
MathRound(v) == ((2 * v + Sub) \div (2 * Sub)) * Sub

\* main.ts clamp(n, min, max) = Math.max(min, Math.min(max, n))
clamp(n, min, max) == Max2(min, Min2(max, n))

\* ------------------------------------------------------ JavaScript values
\* A settings field as it arrives from JSON or IPC: a number, undefined,
\* null, NaN, a numeric string ("120") or some other string ("wide").
Num(n) == [k |-> "number", n |-> n]
UNDEFINED == [k |-> "undefined", n |-> 0]
JSNULL == [k |-> "null", n |-> 0]
NAN == [k |-> "NaN", n |-> 0]
NumStr(n) == [k |-> "numstr", n |-> n]
BadStr == [k |-> "string", n |-> 0]

\* a == null  (true of null and undefined)
IsNullish(v) == v.k \in {"undefined", "null"}
\* a ?? b
Coalesce(a, b) == IF IsNullish(a) THEN b ELSE a
\* falsy values: undefined, null, NaN, 0 (a non-empty string is truthy)
IsFalsy(v) == IsNullish(v) \/ v.k = "NaN" \/ (v.k = "number" /\ v.n = 0)
\* a || 0
OrZero(v) == IF IsFalsy(v) THEN Num(0) ELSE v
\* Number(a)
ToNumber(v) ==
  CASE v.k = "number" -> v
    [] v.k = "numstr" -> Num(v.n)
    [] v.k = "null" -> Num(0)
    [] OTHER -> NAN
\* the local clamp of sanitizeSettings: Math.max(min, Math.min(max, n));
\* Math.min and Math.max return NaN when an argument is NaN
sanitizeClamp(v, min, max) ==
  IF v.k = "NaN" THEN NAN ELSE Num(Max2(min, Min2(max, v.n)))

\* ---------------------------------------------------------------- settings
getDefaultSettings ==
  [theme |-> "system", locale |-> "zh-CN",
   dock |-> [hideDelayMs |-> Num(250), hiddenWidthPx |-> Num(PX(10)),
             shownWidthPx |-> Num(PX(200)), shownHeightPx |-> UNDEFINED]]

\* a variant of sanitizeSettings that converts the fields but does not clamp
sanitizeSettingsUnclamped(s) ==
  [theme |-> s.theme, locale |-> s.locale,
   dock |-> [hideDelayMs |-> ToNumber(OrZero(s.dock.hideDelayMs)),
             hiddenWidthPx |-> ToNumber(OrZero(s.dock.hiddenWidthPx)),
             shownWidthPx |-> ToNumber(OrZero(s.dock.shownWidthPx)),
             shownHeightPx |->
               IF IsNullish(s.dock.shownHeightPx) THEN UNDEFINED
               ELSE ToNumber(OrZero(s.dock.shownHeightPx))]]

sanitizeSettings(s) ==
  [theme |-> s.theme, locale |-> s.locale,
   dock |-> [hideDelayMs |-> sanitizeClamp(ToNumber(OrZero(s.dock.hideDelayMs)), 0, 5000),
             hiddenWidthPx |-> sanitizeClamp(ToNumber(OrZero(s.dock.hiddenWidthPx)), PX(6), PX(200)),
             shownWidthPx |-> sanitizeClamp(ToNumber(OrZero(s.dock.shownWidthPx)), PX(60), PX(2000)),
             shownHeightPx |->
               IF IsNullish(s.dock.shownHeightPx) THEN UNDEFINED
               ELSE sanitizeClamp(ToNumber(OrZero(s.dock.shownHeightPx)), PX(200), PX(5000))]]

\* A patch (Partial<AppSettings>): theme and locale are "" when absent; a
\* missing, null or non-object dock reads every field as undefined through
\* patch.dock?.field, so it is the dock record with all fields UNDEFINED.
NoDockPatch ==
  [hideDelayMs |-> UNDEFINED, hiddenWidthPx |-> UNDEFINED,
   shownWidthPx |-> UNDEFINED, shownHeightPx |-> UNDEFINED]

mergeSettings(base, patch) ==
  sanitizeSettings(
    [theme |-> IF patch.theme = "" THEN base.theme ELSE patch.theme,
     locale |-> IF patch.locale = "" THEN base.locale ELSE patch.locale,
     dock |-> [hideDelayMs |-> Coalesce(patch.dock.hideDelayMs, base.dock.hideDelayMs),
               hiddenWidthPx |-> Coalesce(patch.dock.hiddenWidthPx, base.dock.hiddenWidthPx),
               shownWidthPx |-> Coalesce(patch.dock.shownWidthPx, base.dock.shownWidthPx),
               shownHeightPx |-> Coalesce(patch.dock.shownHeightPx, base.dock.shownHeightPx)]])

\* The settings file: "missing" stands for a file that is absent, unreadable,
\* not JSON, or JSON null (reading a property of null throws inside the try).
NoFile == [missing |-> TRUE]
readSettings(file) ==
  IF file = NoFile THEN getDefaultSettings
  ELSE mergeSettings(getDefaultSettings, file)

\* ---------------------------------------------------------------- geometry
Rect(x, y, w, h) == [x |-> PX(x), y |-> PX(y), width |-> PX(w), height |-> PX(h)]

\* absent values of nullable program variables
Null == [null |-> TRUE]

\* Two monitors side by side.  The second one is lower than the default
\* window height (720), so the height clamp of calcDockTargets takes effect.
Display1 == [id |-> 1, bounds |-> Rect(0, 0, 1920, 1080), workArea |-> Rect(0, 0, 1920, 1080)]
Display2 == [id |-> 2, bounds |-> Rect(1920, 0, 1280, 700), workArea |-> Rect(1920, 0, 1280, 700)]
AllDisplays == {Display1, Display2}
DisplayOf(id) == CHOOSE d \in AllDisplays : d.id = id

IntersectArea(a, r) ==
  Max2(0, Min2(a.x + a.width, r.x + r.width) - Max2(a.x, r.x)) *
  Max2(0, Min2(a.y + a.height, r.y + r.height) - Max2(a.y, r.y))

\* distance from the centre of b to rectangle r (0 when inside)
CentreDistance(b, r) ==
  LET cx == b.x + (b.width \div 2)
      cy == b.y + (b.height \div 2)
  IN  Max2(0, Max2(r.x - cx, cx - (r.x + r.width))) +
      Max2(0, Max2(r.y - cy, cy - (r.y + r.height)))

\* -r.area first, then the nearest display, then the lowest id
MatchKey(b, d) ==
  <<0 - IntersectArea(b, d.bounds), CentreDistance(b, d.bounds), d.id>>
KeyLess(k1, k2) ==
  \/ k1[1] < k2[1]
  \/ k1[1] = k2[1] /\ k1[2] < k2[2]
  \/ k1[1] = k2[1] /\ k1[2] = k2[2] /\ k1[3] < k2[3]

\* screen.getDisplayMatching(b): the display that most closely intersects b
getDisplayMatching(b, present) ==
  CHOOSE d \in AllDisplays :
    /\ d.id \in present
    /\ \A e \in AllDisplays :
         (e.id \in present /\ e # d) => KeyLess(MatchKey(b, d), MatchKey(b, e))

\* getDockDisplay(win) = screen.getDisplayMatching(win.getBounds())
getDockDisplay(b, present) == getDisplayMatching(b, present)

\* getDisplayById(id): null for a null id or an id no display has
getDisplayById(id, present) ==
  IF id = 0 \/ id \notin present THEN Null ELSE DisplayOf(id)

\* a variant of the lookup that always takes the display under the window
LockedDisplayByBounds(id, b, present) == getDockDisplay(b, present)

\* getDisplayById(dockDisplayId) ?? getDockDisplay(win)
LockedDisplay(id, b, present) ==
  IF getDisplayById(id, present) = Null THEN getDockDisplay(b, present)
  ELSE getDisplayById(id, present)

\* the numeric value of a settings field that holds a number
NumberOf(v) == v.n

\* a variant of calcDockTargets that leaves no margin to the screen edge
calcDockTargetsFlush(b, mode, display, settings, fullBounds) ==
  LET wa == display.workArea
      fullWidth == clamp(NumberOf(settings.dock.shownWidthPx), PX(60), wa.width)
      fullHeight == clamp(IF fullBounds = Null THEN b.height ELSE fullBounds.height,
                          PX(420), wa.height)
      y == clamp(IF fullBounds = Null THEN b.y ELSE fullBounds.y,
                 wa.y, wa.y + wa.height - fullHeight)
      hiddenWidth == clamp(NumberOf(settings.dock.hiddenWidthPx), PX(6), PX(200))
      shownX == IF mode = "left" THEN wa.x ELSE wa.x + wa.width - fullWidth
      hiddenX == IF mode = "left" THEN wa.x ELSE wa.x + wa.width - hiddenWidth
  IN  [workArea |-> wa,
       shown |-> [x |-> shownX, y |-> y, width |-> fullWidth, height |-> fullHeight],
       hidden |-> [x |-> hiddenX, y |-> y, width |-> hiddenWidth, height |-> fullHeight]]

\* a variant of calcDockTargets whose hidden rectangle sits at the top of the
\* work area
calcDockTargetsTopAligned(b, mode, display, settings, fullBounds) ==
  LET wa == display.workArea
      fullWidth == clamp(NumberOf(settings.dock.shownWidthPx), PX(60),
                         wa.width - PX(DOCK_MARGIN_PX) * 2)
      fullHeight == clamp(IF fullBounds = Null THEN b.height ELSE fullBounds.height,
                          PX(420), wa.height)
      y == clamp(IF fullBounds = Null THEN b.y ELSE fullBounds.y,
                 wa.y, wa.y + wa.height - fullHeight)
      hiddenWidth == clamp(NumberOf(settings.dock.hiddenWidthPx), PX(6), PX(200))
      shownX == IF mode = "left" THEN wa.x + PX(DOCK_MARGIN_PX)
                ELSE wa.x + wa.width - fullWidth - PX(DOCK_MARGIN_PX)
      hiddenX == IF mode = "left" THEN wa.x + PX(DOCK_MARGIN_PX)
                 ELSE wa.x + wa.width - hiddenWidth - PX(DOCK_MARGIN_PX)
  IN  [workArea |-> wa,
       shown |-> [x |-> shownX, y |-> y, width |-> fullWidth, height |-> fullHeight],
       hidden |-> [x |-> hiddenX, y |-> wa.y, width |-> hiddenWidth, height |-> fullHeight]]

\* calcDockTargets(win, mode, displayOverride), with the globals it reads
\* (appSettings, dockFullBounds) and win.getBounds() passed explicitly
calcDockTargets(b, mode, display, settings, fullBounds) ==
  LET wa == display.workArea
      fullWidth == clamp(NumberOf(settings.dock.shownWidthPx), PX(60),
                         wa.width - PX(DOCK_MARGIN_PX) * 2)
      fullHeight == clamp(IF fullBounds = Null THEN b.height ELSE fullBounds.height,
                          PX(420), wa.height)
      y == clamp(IF fullBounds = Null THEN b.y ELSE fullBounds.y,
                 wa.y, wa.y + wa.height - fullHeight)
      hiddenWidth == clamp(NumberOf(settings.dock.hiddenWidthPx), PX(6), PX(200))
      shownX == IF mode = "left" THEN wa.x + PX(DOCK_MARGIN_PX)
                ELSE wa.x + wa.width - fullWidth - PX(DOCK_MARGIN_PX)
      hiddenX == IF mode = "left" THEN wa.x + PX(DOCK_MARGIN_PX)
                 ELSE wa.x + wa.width - hiddenWidth - PX(DOCK_MARGIN_PX)
  IN  [workArea |-> wa,
       shown |-> [x |-> shownX, y |-> y, width |-> fullWidth, height |-> fullHeight],
       hidden |-> [x |-> hiddenX, y |-> y, width |-> hiddenWidth, height |-> fullHeight]]

\* { x: Math.round(x), y: Math.round(y), width: Math.round(w), height: Math.round(h) }
RoundRect(r) ==
  [x |-> MathRound(r.x), y |-> MathRound(r.y),
   width |-> MathRound(r.width), height |-> MathRound(r.height)]

\* --------------------------------------------------- the dev-electron script
\* The script that restarts Electron when dist-electron changes.  Its state:
\* child (a process number, 0 for null), restarting, pending, debounceTimer
\* (armed or not); the processes alive and those sent SIGKILL; the process
\* whose exit the pending stopElectron promise waits for (awaiting, 0 for
\* none) and whether its 1500ms timeout is armed.  History: loops is the number
\* of restartElectron calls inside the while loop, stopResolved whether the
\* stopElectron promise of the iteration under way has resolved, unawaited
\* the spawns a loop made before that.  unserved tells of the requests that
\* met a restart in progress and that no later cycle has followed yet:
\* "waiting" when no iteration has begun since one arrived, "serving" when
\* the iteration under way began after one arrived; served counts the cycles
\* that followed such requests.

\* spawnElectron()
spawnElectron(w) ==
  [w EXCEPT !.child = w.spawns + 1, !.alive = @ \cup {w.spawns + 1},
            !.spawns = @ + 1]

\* the state before the script's last line, spawnElectron(), has run
WatcherLoaded ==
  [child |-> 0, alive |-> {}, killed |-> {}, spawns |-> 0, restarting |-> FALSE,
   pending |-> FALSE, debounceTimer |-> FALSE, awaiting |-> 0, killTimeout |-> FALSE,
   loops |-> 0, stopResolved |-> FALSE, unawaited |-> 0, requests |-> 0,
   unserved |-> {}, served |-> 0]

WatcherStart == spawnElectron(WatcherLoaded)

\* spawnElectron() as the last statement of an iteration of the loop
loopSpawn(w) ==
  LET w1 == spawnElectron(w)
  IN  [w1 EXCEPT !.unawaited = IF w.stopResolved THEN @ ELSE @ + 1,
                 !.unserved = @ \ {"serving"},
                 !.served = IF "serving" \in w.unserved THEN @ + 1 ELSE @]

\* restartElectron from the test of `while (pending)` up to the point where
\* it is suspended in `await stopElectron()` or returns.  stopElectron
\* resolves at once when child is null or when process.kill throws (no such
\* process); otherwise it sends SIGTERM, arms the 1500ms timeout and waits.
RECURSIVE whileLoop(_)
whileLoop(w) ==
  IF ~w.pending
  THEN [w EXCEPT !.restarting = FALSE, !.loops = @ - 1]
  ELSE
    LET w1 == [w EXCEPT !.pending = FALSE, !.stopResolved = FALSE,
                        !.unserved = IF "waiting" \in @ THEN {"serving"} ELSE @]
    IN  IF w1.child = 0 \/ w1.child \notin w1.alive
        THEN whileLoop(loopSpawn([w1 EXCEPT !.stopResolved = TRUE]))
        ELSE [w1 EXCEPT !.awaiting = w1.child, !.killTimeout = TRUE]

\* a variant of restartElectron without the early return
restartElectronReentrant(w) ==
  LET w1 == [w EXCEPT !.pending = TRUE]
  IN  whileLoop([w1 EXCEPT !.restarting = TRUE, !.loops = @ + 1])

\* restartElectron(reason)
restartElectron(w) ==
  LET w1 == [w EXCEPT !.pending = TRUE]
  IN  IF w1.restarting
      THEN [w1 EXCEPT !.unserved = @ \cup {"waiting"}]
      ELSE whileLoop([w1 EXCEPT !.restarting = TRUE, !.loops = @ + 1])

\* scheduleRestart(reason): the timeout is cleared and armed anew
scheduleRestart(w) == [w EXCEPT !.debounceTimer = TRUE]

\* the callback of the 200ms timeout of scheduleRestart
debounceFired(w) ==
  restartElectron([w EXCEPT !.debounceTimer = FALSE, !.requests = @ + 1])

\* the stopElectron promise resolves and the loop goes on after the await
stopResolves(w) ==
  whileLoop(loopSpawn([w EXCEPT !.awaiting = 0, !.killTimeout = FALSE,
                                !.stopResolved = TRUE]))

\* process p exits: child.on('exit') sets child = null, whichever process it
\* was; p.once('exit') of a pending stopElectron clears the timeout and
\* resolves
childExited(w, p) ==
  LET w1 == [w EXCEPT !.child = 0, !.alive = @ \ {p}]
  IN  IF w1.awaiting = p THEN stopResolves(w1) ELSE w1

\* the 1500ms timeout of stopElectron: SIGKILL, then resolve
killTimeoutFired(w) ==
  stopResolves([w EXCEPT !.killed = @ \cup {w.awaiting}])

\* ------------------------------------------------------------------- state
VARIABLES
  appSettings,             \* let appSettings: AppSettings
  dockTimer,               \* dockTimer holds an interval handle (dockTimer !== null)
  pollIntervals,           \* intervals made by setInterval and not yet cleared
  dockMode,                \* "left" | "right" | "null"
  dockPinned,
  dockDisplayId,           \* a display id, 0 for null
  dockFullBounds,          \* {width, height, y} or Null
  dockShown,
  dockPrevMinSize,         \* {width, height} or Null
  dockInternalOps,
  dockLastHoverAt,
  dockHideRequestedAt,
  dockSettingsWriteTimer,  \* Null, or the settings the pending debounce timer will write
  writeTimeouts,           \* timeouts made by scheduleWriteAppSettings and neither fired nor cleared, oldest first
  windowAlwaysOnTop,
  winBounds,               \* BrowserWindow: getBounds()
  winMinSize,              \* BrowserWindow: getMinimumSize()
  winAlwaysOnTop,          \* BrowserWindow: isAlwaysOnTop()
  winDestroyed,            \* BrowserWindow: isDestroyed()
  winFocused,              \* BrowserWindow: isFocused()
  echoMove,                \* 'move' events the toolkit still owes, by the call that caused them
  echoResize,              \* 'resize' events the toolkit still owes, by the call that caused them
  releaseTimers,           \* pending setTimeout(.., 0) callbacks of setBoundsInternal
  displays,                \* ids of the connected displays
  sentDockMode,            \* last 'window:dockMode' message sent to the renderer
  sentDockPinned,          \* last 'window:dockPinned' message sent to the renderer
  writesInFlight,          \* writeSettings calls that have not finished
  settingsFile,            \* content of settings.json
  watcher,                 \* the state of the dev-electron script
  lastOp,                  \* history: what the last step did, when it did something of note
  roundTrip                \* history: the dock('right'), dock('center') sequence under way

vars ==
  <<appSettings, dockTimer, pollIntervals, dockMode, dockPinned, dockDisplayId, dockFullBounds,
    dockShown, dockPrevMinSize, dockInternalOps, dockLastHoverAt,
    dockHideRequestedAt, dockSettingsWriteTimer, writeTimeouts,
    windowAlwaysOnTop, winBounds,
    winMinSize, winAlwaysOnTop, winDestroyed, winFocused, echoMove, echoResize,
    releaseTimers, displays, sentDockMode, sentDockPinned, writesInFlight,
    settingsFile, watcher, lastOp, roundTrip>>

\* the echoes owed: for setBoundsInternal calls ("internal") and for the plain
\* win.setBounds of the centre branch ("plain")
NoEchoes == [internal |-> 0, plain |-> 0]

\* the program state as one value; the handlers below are functions on it
Cur ==
  [appSettings |-> appSettings, dockTimer |-> dockTimer,
   pollIntervals |-> pollIntervals, dockMode |-> dockMode,
   dockPinned |-> dockPinned, dockDisplayId |-> dockDisplayId,
   dockFullBounds |-> dockFullBounds, dockShown |-> dockShown,
   dockPrevMinSize |-> dockPrevMinSize, dockInternalOps |-> dockInternalOps,
   dockLastHoverAt |-> dockLastHoverAt, dockHideRequestedAt |-> dockHideRequestedAt,
   dockSettingsWriteTimer |-> dockSettingsWriteTimer,
   writeTimeouts |-> writeTimeouts,
   windowAlwaysOnTop |-> windowAlwaysOnTop, winBounds |-> winBounds,
   winMinSize |-> winMinSize, winAlwaysOnTop |-> winAlwaysOnTop,
   winDestroyed |-> winDestroyed, winFocused |-> winFocused,
   echoMove |-> echoMove, echoResize |-> echoResize,
   releaseTimers |-> releaseTimers, displays |-> displays,
   sentDockMode |-> sentDockMode, sentDockPinned |-> sentDockPinned,
   writesInFlight |-> writesInFlight, settingsFile |-> settingsFile]

\* the model's caps on the counters
WithinCaps(s) ==
  /\ s.dockInternalOps <= MaxOps
  /\ s.releaseTimers <= MaxOps
  /\ s.echoMove.internal + s.echoMove.plain <= MaxOps
  /\ s.echoResize.internal + s.echoResize.plain <= MaxOps
  /\ Cardinality(s.writesInFlight) <= MaxOps

\* no dock('right'), dock('center') sequence is under way
NoRoundTrip == [stage |-> 0, height |-> 0]

\* roundTrip after a step noted op that leaves the state s: stage 1 from the
\* dock('right') that starts a session out of Center, with the height the
\* session starts with; stage 2 from the dock('center') that ends this
\* session; any other dock request and any user resize ends the sequence
RoundTripAfter(s, op) ==
  IF op[1] = "dock"
  THEN IF op[2] = "null" /\ op[3] = "right"
       THEN [stage |-> 1, height |-> s.dockFullBounds.height]
       ELSE IF op[2] = "right" /\ op[3] = "center" /\ roundTrip.stage = 1
       THEN [stage |-> 2, height |-> roundTrip.height]
       ELSE NoRoundTrip
  ELSE IF op[1] = "userResize" THEN NoRoundTrip
  ELSE roundTrip

\* the step that runs a handler, noted op, and leaves the state s
Commit(s, op) ==
  /\ WithinCaps(s)
  /\ appSettings' = s.appSettings
  /\ dockTimer' = s.dockTimer
  /\ pollIntervals' = s.pollIntervals
  /\ dockMode' = s.dockMode
  /\ dockPinned' = s.dockPinned
  /\ dockDisplayId' = s.dockDisplayId
  /\ dockFullBounds' = s.dockFullBounds
  /\ dockShown' = s.dockShown
  /\ dockPrevMinSize' = s.dockPrevMinSize
  /\ dockInternalOps' = s.dockInternalOps
  /\ dockLastHoverAt' = s.dockLastHoverAt
  /\ dockHideRequestedAt' = s.dockHideRequestedAt
  /\ dockSettingsWriteTimer' = s.dockSettingsWriteTimer
  /\ writeTimeouts' = s.writeTimeouts
  /\ windowAlwaysOnTop' = s.windowAlwaysOnTop
  /\ winBounds' = s.winBounds
  /\ winMinSize' = s.winMinSize
  /\ winAlwaysOnTop' = s.winAlwaysOnTop
  /\ winDestroyed' = s.winDestroyed
  /\ winFocused' = s.winFocused
  /\ echoMove' = s.echoMove
  /\ echoResize' = s.echoResize
  /\ releaseTimers' = s.releaseTimers
  /\ displays' = s.displays
  /\ sentDockMode' = s.sentDockMode
  /\ sentDockPinned' = s.sentDockPinned
  /\ writesInFlight' = s.writesInFlight
  /\ settingsFile' = s.settingsFile
  /\ watcher' = watcher
  /\ lastOp' = op
  /\ roundTrip' = RoundTripAfter(s, op)

\* ------------------------------------------------------------ the toolkit
\* win.setBounds(rect): the window takes the rectangle at once; the toolkit
\* reports the change later through 'move' (position changed) and 'resize'
\* (size changed), on a turn of the event loop of its own choosing.  origin
\* names the caller: "internal" (setBoundsInternal) or "plain".
setBounds(s, rect, origin) ==
  [s EXCEPT !.winBounds = rect,
            !.echoMove[origin] = IF rect.x # s.winBounds.x \/ rect.y # s.winBounds.y
                                 THEN @ + 1 ELSE @,
            !.echoResize[origin] =
              IF rect.width # s.winBounds.width \/ rect.height # s.winBounds.height
              THEN @ + 1 ELSE @]

\* ----------------------------------------------------------- the handlers
stopDocking(s) ==
  LET s1 == [s EXCEPT !.dockMode = "null", !.dockPinned = FALSE,
                      !.dockDisplayId = 0, !.dockFullBounds = Null,
                      !.dockShown = FALSE, !.dockHideRequestedAt = 0]
      s2 == IF ~s1.winDestroyed
            THEN [s1 EXCEPT !.winAlwaysOnTop = s1.windowAlwaysOnTop,
                            !.sentDockPinned = FALSE]
            ELSE s1
      s3 == IF ~s2.winDestroyed /\ s2.dockPrevMinSize # Null
            THEN [s2 EXCEPT !.winMinSize = s2.dockPrevMinSize]
            ELSE s2
  IN  [s3 EXCEPT !.dockPrevMinSize = Null,
                 !.pollIntervals = IF s3.dockTimer THEN @ - 1 ELSE @,
                 !.dockTimer = FALSE]

\* a variant of setBoundsInternal that schedules no release
setBoundsInternalUnreleased(s, bounds) ==
  LET s1 == [s EXCEPT !.dockInternalOps = @ + 1]
  IN  setBounds(s1, bounds, "internal")

\* dockInternalOps++; win.setBounds(bounds); setTimeout(release, 0)
setBoundsInternal(s, bounds) ==
  LET s1 == [s EXCEPT !.dockInternalOps = @ + 1]
      s2 == setBounds(s1, bounds, "internal")
  IN  [s2 EXCEPT !.releaseTimers = @ + 1]

\* the setTimeout callback of setBoundsInternal
releaseInternalOp(s) ==
  [s EXCEPT !.dockInternalOps = Max2(0, @ - 1), !.releaseTimers = @ - 1]

\* the delay of the debounce timer
DOCK_SETTINGS_WRITE_MS == 300

\* a variant of scheduleWriteAppSettings without the clearTimeout
scheduleWriteUncleared(s, next) ==
  [s EXCEPT !.writeTimeouts = Append(@, [next |-> next, ms |-> DOCK_SETTINGS_WRITE_MS]),
            !.dockSettingsWriteTimer = next]

\* if (dockSettingsWriteTimer) clearTimeout(dockSettingsWriteTimer);
\* dockSettingsWriteTimer = setTimeout(() => writeSettings(next), 300).
\* The handle, when set, is the timeout made last.
scheduleWriteAppSettings(s, next) ==
  LET live == IF s.dockSettingsWriteTimer # Null
              THEN SubSeq(s.writeTimeouts, 1, Len(s.writeTimeouts) - 1)
              ELSE s.writeTimeouts
  IN  [s EXCEPT !.writeTimeouts = Append(live, [next |-> next, ms |-> DOCK_SETTINGS_WRITE_MS]),
                !.dockSettingsWriteTimer = next]

\* appSettings = next; scheduleWriteAppSettings(next)
applyAppSettings(s, next) ==
  scheduleWriteAppSettings([s EXCEPT !.appSettings = next], next)

\* the rectangle handleMove/handleResize re-apply: x is recomputed from the
\* right edge in right mode (rightEdge - target.width)
Resnap(mode, target) ==
  LET x == IF mode = "right" THEN (target.x + target.width) - target.width
           ELSE target.x
  IN  [x |-> MathRound(x), y |-> MathRound(target.y),
       width |-> MathRound(target.width), height |-> MathRound(target.height)]

\* a variant of handleResizeWhileDocked that remembers the height and y of
\* a resize but not its width
handleResizeHeightOnly(s) ==
  IF s.dockMode = "null" THEN s
  ELSE
    LET b == s.winBounds
        fb == IF s.dockFullBounds = Null
              THEN [width |-> b.width, height |-> b.height, y |-> b.y]
              ELSE [s.dockFullBounds EXCEPT !.height = b.height, !.y = b.y]
        s1 == [s EXCEPT !.dockFullBounds = fb]
        nextDock ==
          [s1.appSettings.dock EXCEPT
             !.shownHeightPx = Num(clamp(b.height, PX(420), PX(5000)))]
        merged == sanitizeSettings(
                    mergeSettings(s1.appSettings,
                                  [theme |-> "", locale |-> "", dock |-> nextDock]))
        s2 == IF merged.dock.shownHeightPx # s1.appSettings.dock.shownHeightPx
              THEN applyAppSettings(s1, merged)
              ELSE s1
        lockedDisplay == LockedDisplay(s2.dockDisplayId, b, s2.displays)
        targets == calcDockTargets(b, s2.dockMode, lockedDisplay, s2.appSettings,
                                   s2.dockFullBounds)
        target == IF s2.dockShown THEN targets.shown ELSE targets.hidden
    IN  setBoundsInternal(s2, Resnap(s2.dockMode, target))

\* a variant of handleResizeWhileDocked that takes the width of the window
\* for the panel width whether the panel is shown or hidden
handleResizeWidthAlways(s) ==
  IF s.dockMode = "null" THEN s
  ELSE
    LET b == s.winBounds
        fb1 == IF s.dockFullBounds = Null
               THEN [width |-> b.width, height |-> b.height, y |-> b.y]
               ELSE [s.dockFullBounds EXCEPT !.height = b.height, !.y = b.y]
        fb2 == [fb1 EXCEPT !.width = b.width]
        s1 == [s EXCEPT !.dockFullBounds = fb2]
        nextDock ==
          [s1.appSettings.dock EXCEPT
             !.shownWidthPx = Num(clamp(b.width, PX(60), PX(2000))),
             !.shownHeightPx = Num(clamp(b.height, PX(420), PX(5000)))]
        merged == sanitizeSettings(
                    mergeSettings(s1.appSettings,
                                  [theme |-> "", locale |-> "", dock |-> nextDock]))
        s2 == IF \/ merged.dock.shownWidthPx # s1.appSettings.dock.shownWidthPx
                 \/ merged.dock.shownHeightPx # s1.appSettings.dock.shownHeightPx
              THEN applyAppSettings(s1, merged)
              ELSE s1
        lockedDisplay == LockedDisplay(s2.dockDisplayId, b, s2.displays)
        targets == calcDockTargets(b, s2.dockMode, lockedDisplay, s2.appSettings,
                                   s2.dockFullBounds)
        target == IF s2.dockShown THEN targets.shown ELSE targets.hidden
    IN  setBoundsInternal(s2, Resnap(s2.dockMode, target))

\* handleResizeWhileDocked(win)
handleResizeWhileDocked(s) ==
  IF s.dockMode = "null" THEN s
  ELSE
    LET b == s.winBounds
        fb1 == IF s.dockFullBounds = Null
               THEN [width |-> b.width, height |-> b.height, y |-> b.y]
               ELSE [s.dockFullBounds EXCEPT !.height = b.height, !.y = b.y]
        fb2 == IF s.dockShown THEN [fb1 EXCEPT !.width = b.width] ELSE fb1
        s1 == [s EXCEPT !.dockFullBounds = fb2]
        nextDock ==
          [s1.appSettings.dock EXCEPT
             !.shownWidthPx = IF s1.dockShown THEN Num(clamp(b.width, PX(60), PX(2000))) ELSE @,
             !.shownHeightPx = Num(clamp(b.height, PX(420), PX(5000)))]
        merged == sanitizeSettings(
                    mergeSettings(s1.appSettings,
                                  [theme |-> "", locale |-> "", dock |-> nextDock]))
        s2 == IF \/ merged.dock.shownWidthPx # s1.appSettings.dock.shownWidthPx
                 \/ merged.dock.shownHeightPx # s1.appSettings.dock.shownHeightPx
              THEN applyAppSettings(s1, merged)
              ELSE s1
        lockedDisplay == LockedDisplay(s2.dockDisplayId, b, s2.displays)
        targets == calcDockTargets(b, s2.dockMode, lockedDisplay, s2.appSettings,
                                   s2.dockFullBounds)
        target == IF s2.dockShown THEN targets.shown ELSE targets.hidden
    IN  setBoundsInternal(s2, Resnap(s2.dockMode, target))

\* a variant of handleMoveWhileDocked that takes the window's width along
\* with its y
handleMoveMergingWidth(s) ==
  IF s.dockMode = "null" THEN s
  ELSE
    LET b == s.winBounds
        fb == IF s.dockFullBounds = Null
              THEN [width |-> b.width, height |-> b.height, y |-> b.y]
              ELSE [s.dockFullBounds EXCEPT !.y = b.y, !.width = b.width]
        s1 == [s EXCEPT !.dockFullBounds = fb]
        lockedDisplay == LockedDisplay(s1.dockDisplayId, b, s1.displays)
        targets == calcDockTargets(b, s1.dockMode, lockedDisplay, s1.appSettings,
                                   s1.dockFullBounds)
        target == IF s1.dockShown THEN targets.shown ELSE targets.hidden
    IN  setBoundsInternal(s1, Resnap(s1.dockMode, target))

\* handleMoveWhileDocked(win)
handleMoveWhileDocked(s) ==
  IF s.dockMode = "null" THEN s
  ELSE
    LET b == s.winBounds
        fb == IF s.dockFullBounds = Null
              THEN [width |-> b.width, height |-> b.height, y |-> b.y]
              ELSE [s.dockFullBounds EXCEPT !.y = b.y]
        s1 == [s EXCEPT !.dockFullBounds = fb]
        lockedDisplay == LockedDisplay(s1.dockDisplayId, b, s1.displays)
        targets == calcDockTargets(b, s1.dockMode, lockedDisplay, s1.appSettings,
                                   s1.dockFullBounds)
        target == IF s1.dockShown THEN targets.shown ELSE targets.hidden
    IN  setBoundsInternal(s1, Resnap(s1.dockMode, target))

\* a variant of the move handler that, while the counter is positive, still
\* takes the window's y for the user's
onMoveMergingAlways(s) ==
  IF s.dockMode = "null" THEN s
  ELSE IF s.dockInternalOps > 0
  THEN [s EXCEPT !.dockFullBounds = [@ EXCEPT !.y = s.winBounds.y]]
  ELSE handleMoveWhileDocked(s)

\* mainWindow.on('move', ...)
onMove(s) ==
  IF s.dockMode = "null" THEN s
  ELSE IF s.dockInternalOps > 0 THEN s
  ELSE handleMoveWhileDocked(s)

\* mainWindow.on('resize', ...)
onResize(s) ==
  IF s.dockMode = "null" THEN s
  ELSE IF s.dockInternalOps > 0 THEN s
  ELSE handleResizeWhileDocked(s)

\* a variant of the blur handler that records the request and leaves the
\* hiding to the next poll tick
onBlurDeferred(s, now) ==
  IF s.dockMode = "null" THEN s
  ELSE IF s.dockPinned THEN s
  ELSE IF ~s.dockShown THEN s
  ELSE [s EXCEPT !.dockHideRequestedAt = now]

\* a variant of the blur handler without the early return for a pinned window
onBlurUnpinned(s, now) ==
  IF s.dockMode = "null" THEN s
  ELSE IF ~s.dockShown THEN s
  ELSE
    LET s1 == [s EXCEPT !.dockHideRequestedAt = now]
        lockedDisplay == LockedDisplay(s1.dockDisplayId, s1.winBounds, s1.displays)
        targets == calcDockTargets(s1.winBounds, s1.dockMode, lockedDisplay,
                                   s1.appSettings, s1.dockFullBounds)
        s2 == [s1 EXCEPT !.dockShown = FALSE]
    IN  setBoundsInternal(s2, RoundRect(targets.hidden))

\* a variant of the blur handler that hides at once only when hideDelayMs is
\* 0, and otherwise records the request
onBlurAfterDelay(s, now) ==
  IF s.dockMode = "null" THEN s
  ELSE IF s.dockPinned THEN s
  ELSE IF ~s.dockShown THEN s
  ELSE IF NumberOf(s.appSettings.dock.hideDelayMs) > 0
  THEN [s EXCEPT !.dockHideRequestedAt = now]
  ELSE
    LET s1 == [s EXCEPT !.dockHideRequestedAt = now]
        lockedDisplay == LockedDisplay(s1.dockDisplayId, s1.winBounds, s1.displays)
        targets == calcDockTargets(s1.winBounds, s1.dockMode, lockedDisplay,
                                   s1.appSettings, s1.dockFullBounds)
        s2 == [s1 EXCEPT !.dockShown = FALSE]
    IN  setBoundsInternal(s2, RoundRect(targets.hidden))

\* a variant of the blur handler that records the request and shrinks the
\* window but leaves the shown flag set
onBlurStillShown(s, now) ==
  IF s.dockMode = "null" THEN s
  ELSE IF s.dockPinned THEN s
  ELSE IF ~s.dockShown THEN s
  ELSE
    LET s1 == [s EXCEPT !.dockHideRequestedAt = now]
        lockedDisplay == LockedDisplay(s1.dockDisplayId, s1.winBounds, s1.displays)
        targets == calcDockTargets(s1.winBounds, s1.dockMode, lockedDisplay,
                                   s1.appSettings, s1.dockFullBounds)
    IN  setBoundsInternal(s1, RoundRect(targets.hidden))

\* mainWindow.on('blur', ...)
onBlur(s, now) ==
  IF s.dockMode = "null" THEN s
  ELSE IF s.dockPinned THEN s
  ELSE IF ~s.dockShown THEN s
  ELSE
    LET s1 == [s EXCEPT !.dockHideRequestedAt = now]
        lockedDisplay == LockedDisplay(s1.dockDisplayId, s1.winBounds, s1.displays)
        targets == calcDockTargets(s1.winBounds, s1.dockMode, lockedDisplay,
                                   s1.appSettings, s1.dockFullBounds)
        s2 == [s1 EXCEPT !.dockShown = FALSE]
    IN  setBoundsInternal(s2, RoundRect(targets.hidden))

\* a variant of the focus handler that also reveals the window
onFocusRevealing(s) ==
  IF s.dockMode = "null" THEN s
  ELSE [s EXCEPT !.dockHideRequestedAt = 0, !.dockShown = TRUE]

\* mainWindow.on('focus', ...)
onFocus(s) ==
  IF s.dockMode = "null" THEN s
  ELSE [s EXCEPT !.dockHideRequestedAt = 0]

\* a variant of the installation that makes a new interval on every call
installDockTimerAlways(s) ==
  [s EXCEPT !.dockTimer = TRUE, !.pollIntervals = @ + 1]

\* if (dockTimer) return; dockTimer = setInterval(...)
installDockTimer(s) ==
  IF s.dockTimer THEN s
  ELSE [s EXCEPT !.dockTimer = TRUE, !.pollIntervals = @ + 1]

\* a variant of startDocking that records the minimum size on every call
startDockingRecapturing(s, mode, now) ==
  LET b == s.winBounds
      s1 == [s EXCEPT
               !.dockMode = mode,
               !.dockDisplayId = getDockDisplay(b, s.displays).id,
               !.dockFullBounds =
                 [width |-> b.width,
                  height |-> IF IsNullish(s.appSettings.dock.shownHeightPx)
                             THEN b.height
                             ELSE NumberOf(s.appSettings.dock.shownHeightPx),
                  y |-> b.y],
               !.dockShown = FALSE,
               !.dockHideRequestedAt = 0,
               !.winAlwaysOnTop = TRUE,
               !.dockPrevMinSize = s.winMinSize]
      s2 == [s1 EXCEPT
               !.winMinSize = [width |-> NumberOf(s1.appSettings.dock.hiddenWidthPx),
                               height |-> s1.dockPrevMinSize.height],
               !.sentDockMode = mode,
               !.dockLastHoverAt = now]
      lockedDisplay == LockedDisplay(s2.dockDisplayId, b, s2.displays)
      targets == calcDockTargets(b, mode, lockedDisplay, s2.appSettings, s2.dockFullBounds)
      s3 == setBoundsInternal(s2, RoundRect(targets.hidden))
  IN  installDockTimer(s3)

\* a variant of startDocking that remembers the window's own height whatever
\* the settings hold
startDockingCurrentHeight(s, mode, now) ==
  LET b == s.winBounds
      s1 == [s EXCEPT
               !.dockMode = mode,
               !.dockDisplayId = getDockDisplay(b, s.displays).id,
               !.dockFullBounds = [width |-> b.width, height |-> b.height, y |-> b.y],
               !.dockShown = FALSE,
               !.dockHideRequestedAt = 0,
               !.winAlwaysOnTop = TRUE,
               !.dockPrevMinSize = IF @ = Null THEN s.winMinSize ELSE @]
      s2 == [s1 EXCEPT
               !.winMinSize = [width |-> NumberOf(s1.appSettings.dock.hiddenWidthPx),
                               height |-> s1.dockPrevMinSize.height],
               !.sentDockMode = mode,
               !.dockLastHoverAt = now]
      lockedDisplay == LockedDisplay(s2.dockDisplayId, b, s2.displays)
      targets == calcDockTargets(b, mode, lockedDisplay, s2.appSettings, s2.dockFullBounds)
      s3 == setBoundsInternal(s2, RoundRect(targets.hidden))
  IN  installDockTimer(s3)

\* startDocking(win, mode)
startDocking(s, mode, now) ==
  LET b == s.winBounds
      s1 == [s EXCEPT
               !.dockMode = mode,
               !.dockDisplayId = getDockDisplay(b, s.displays).id,
               !.dockFullBounds =
                 [width |-> b.width,
                  height |-> IF IsNullish(s.appSettings.dock.shownHeightPx)
                             THEN b.height
                             ELSE NumberOf(s.appSettings.dock.shownHeightPx),
                  y |-> b.y],
               !.dockShown = FALSE,
               !.dockHideRequestedAt = 0,
               !.winAlwaysOnTop = TRUE,
               !.dockPrevMinSize = IF @ = Null THEN s.winMinSize ELSE @]
      s2 == [s1 EXCEPT
               !.winMinSize = [width |-> NumberOf(s1.appSettings.dock.hiddenWidthPx),
                               height |-> s1.dockPrevMinSize.height],
               !.sentDockMode = mode,
               !.dockLastHoverAt = now]
      lockedDisplay == LockedDisplay(s2.dockDisplayId, b, s2.displays)
      targets == calcDockTargets(b, mode, lockedDisplay, s2.appSettings, s2.dockFullBounds)
      s3 == setBoundsInternal(s2, RoundRect(targets.hidden))
  IN  installDockTimer(s3)

\* cursorInWorkArea of the poll tick (both ends inclusive)
cursorInWorkArea(cursor, workArea) ==
  /\ cursor.x >= workArea.x
  /\ cursor.x <= workArea.x + workArea.width
  /\ cursor.y >= workArea.y
  /\ cursor.y <= workArea.y + workArea.height

\* cursorInWindow of the poll tick
cursorInWindow(cursor, b) ==
  /\ cursor.x >= b.x
  /\ cursor.x <= b.x + b.width
  /\ cursor.y >= b.y
  /\ cursor.y <= b.y + b.height

\* a variant of onEdgeTrigger that tests the left edge whatever the mode
onEdgeTriggerLeftOnly(mode, cursor, workArea) ==
  cursorInWorkArea(cursor, workArea)
  /\ cursor.x <= workArea.x + PX(DOCK_EDGE_TRIGGER_PX)

\* onEdgeTrigger of the poll tick
onEdgeTrigger(mode, cursor, workArea) ==
  IF mode = "left"
  THEN cursorInWorkArea(cursor, workArea)
       /\ cursor.x <= workArea.x + PX(DOCK_EDGE_TRIGGER_PX)
  ELSE cursorInWorkArea(cursor, workArea)
       /\ cursor.x >= workArea.x + workArea.width - PX(DOCK_EDGE_TRIGGER_PX)

\* a variant of the decision table in which a shown, unpinned window is
\* hidden as soon as the cursor has left it
shouldShowWhileHovered(shown, pinned, hideRequestedAt, inWindow, onEdge) ==
  IF ~shown
  THEN (IF hideRequestedAt > 0 /\ ~inWindow THEN FALSE
        ELSE inWindow \/ onEdge)
  ELSE IF pinned THEN TRUE
  ELSE inWindow \/ onEdge

\* a variant of the decision table in which a hidden window is revealed by
\* the edge trigger whether or not a blur asked for the hide
shouldShowForgetful(shown, pinned, hideRequestedAt, inWindow, onEdge) ==
  IF ~shown THEN inWindow \/ onEdge
  ELSE IF pinned THEN TRUE
  ELSE IF hideRequestedAt > 0 THEN FALSE
  ELSE TRUE

\* the decision table of the poll tick (shouldShow)
shouldShow(shown, pinned, hideRequestedAt, inWindow, onEdge) ==
  IF ~shown
  THEN (IF hideRequestedAt > 0 /\ ~inWindow THEN FALSE
        ELSE inWindow \/ onEdge)
  ELSE IF pinned THEN TRUE
  ELSE IF hideRequestedAt > 0 THEN FALSE
  ELSE TRUE

\* a variant of the callback that never looks at isDestroyed()
dockTickUnguarded(s, cursor, now) ==
  IF s.dockMode = "null" THEN stopDocking(s) ELSE s

\* a variant of the callback that computes the targets from the default
\* settings
dockTickDefaultWidths(s, cursor, now) ==
  IF s.winDestroyed THEN stopDocking(s)
  ELSE IF s.dockMode = "null" THEN stopDocking(s)
  ELSE
    LET b == s.winBounds
        lockedDisplay == LockedDisplay(s.dockDisplayId, b, s.displays)
        targets == calcDockTargets(b, s.dockMode, lockedDisplay, getDefaultSettings,
                                   s.dockFullBounds)
        workArea == targets.workArea
        inWindow == cursorInWindow(cursor, b)
        onEdge == onEdgeTrigger(s.dockMode, cursor, workArea)
        s1 == IF inWindow
              THEN [s EXCEPT !.dockLastHoverAt = now, !.dockHideRequestedAt = 0]
              ELSE s
        show == shouldShow(s1.dockShown, s1.dockPinned, s1.dockHideRequestedAt,
                           inWindow, onEdge)
        s2 == [s1 EXCEPT !.dockShown = show]
        target == IF show THEN targets.shown ELSE targets.hidden
        nextWidth == target.width
        nextX == IF s2.dockMode = "left" THEN target.x
                 ELSE (target.x + target.width) - nextWidth
        changed == \/ nextWidth # b.width
                   \/ nextX # b.x
                   \/ b.y # target.y
                   \/ b.height # target.height
    IN  IF changed
        THEN setBoundsInternal(s2, [x |-> MathRound(nextX), width |-> MathRound(nextWidth),
                                    y |-> MathRound(target.y),
                                    height |-> MathRound(target.height)])
        ELSE s2

\* the setInterval callback installed by startDocking
dockTick(s, cursor, now) ==
  IF s.winDestroyed THEN stopDocking(s)
  ELSE IF s.dockMode = "null" THEN stopDocking(s)
  ELSE
    LET b == s.winBounds
        lockedDisplay == LockedDisplay(s.dockDisplayId, b, s.displays)
        targets == calcDockTargets(b, s.dockMode, lockedDisplay, s.appSettings,
                                   s.dockFullBounds)
        workArea == targets.workArea
        inWindow == cursorInWindow(cursor, b)
        onEdge == onEdgeTrigger(s.dockMode, cursor, workArea)
        s1 == IF inWindow
              THEN [s EXCEPT !.dockLastHoverAt = now, !.dockHideRequestedAt = 0]
              ELSE s
        show == shouldShow(s1.dockShown, s1.dockPinned, s1.dockHideRequestedAt,
                           inWindow, onEdge)
        s2 == [s1 EXCEPT !.dockShown = show]
        target == IF show THEN targets.shown ELSE targets.hidden
        nextWidth == target.width
        nextX == IF s2.dockMode = "left" THEN target.x
                 ELSE (target.x + target.width) - nextWidth
        changed == \/ nextWidth # b.width
                   \/ nextX # b.x
                   \/ b.y # target.y
                   \/ b.height # target.height
    IN  IF changed
        THEN setBoundsInternal(s2, [x |-> MathRound(nextX), width |-> MathRound(nextWidth),
                                    y |-> MathRound(target.y),
                                    height |-> MathRound(target.height)])
        ELSE s2

\* Math.round(d / 2) for a number d held in 1/Sub pixels
MathRoundHalf(d) == ((d + Sub) \div (2 * Sub)) * Sub

\* ipcMain.handle('window:dock', ...)
windowDock(s, mode, now) ==
  IF s.winDestroyed THEN s
  ELSE IF mode = "center"
  THEN
    LET restore == s.dockFullBounds
        s1 == stopDocking(s)
        s2 == [s1 EXCEPT !.sentDockMode = "center"]
        wa == getDockDisplay(s2.winBounds, s2.displays).workArea
        b == s2.winBounds
        width == IF restore = Null THEN b.width ELSE restore.width
        height == IF restore = Null THEN b.height ELSE restore.height
        x == wa.x + MathRoundHalf(wa.width - width)
        y == wa.y + MathRoundHalf(wa.height - height)
    IN  setBounds(s2, [x |-> x, y |-> y, width |-> width, height |-> height], "plain")
  ELSE startDocking(s, mode, now)

\* ipcMain.handle('window:getDockPinned', ...)
getDockPinned(s) == s.dockPinned

\* a variant of the handler that takes the value whatever the mode
setDockPinnedAnywhere(s, value) ==
  IF s.winDestroyed THEN s
  ELSE [s EXCEPT !.dockPinned = value, !.sentDockPinned = value]

\* what ipcMain.handle('window:setDockPinned', ...) returns
setDockPinnedResult(s, value) ==
  IF s.winDestroyed THEN FALSE
  ELSE IF s.dockMode = "null" THEN FALSE
  ELSE value

\* a variant of the handler that sets the flag without telling the renderer
setDockPinnedSilent(s, value) ==
  IF s.winDestroyed THEN s
  ELSE IF s.dockMode = "null"
  THEN [s EXCEPT !.dockPinned = FALSE, !.sentDockPinned = FALSE]
  ELSE [s EXCEPT !.dockPinned = value]

\* ipcMain.handle('window:setDockPinned', ...)
setDockPinned(s, value) ==
  IF s.winDestroyed THEN s
  ELSE IF s.dockMode = "null"
  THEN [s EXCEPT !.dockPinned = FALSE, !.sentDockPinned = FALSE]
  ELSE [s EXCEPT !.dockPinned = value, !.sentDockPinned = value]

\* a variant of the handler that applies the value to the window at once,
\* docked or not
setAlwaysOnTopAtOnce(s, value) ==
  IF s.winDestroyed THEN s
  ELSE [s EXCEPT !.windowAlwaysOnTop = value, !.winAlwaysOnTop = value]

\* ipcMain.handle('window:setAlwaysOnTop', ...)
setAlwaysOnTop(s, value) ==
  IF s.winDestroyed THEN s
  ELSE
    LET s1 == [s EXCEPT !.windowAlwaysOnTop = value]
    IN  IF s1.dockMode = "null"
        THEN [s1 EXCEPT !.winAlwaysOnTop = s1.windowAlwaysOnTop]
        ELSE s1

\* JSON.stringify of a settings record: NaN is written as null, an
\* undefined field is left out (it reads back as undefined)
JSONStringify(settings) ==
  [settings EXCEPT
     !.dock = [f \in DOMAIN settings.dock |->
                 IF settings.dock[f].k = "NaN" THEN JSNULL ELSE settings.dock[f]]]

\* writeSettings(settings) up to its first await: the write is under way
writeSettings(s, settings) ==
  [s EXCEPT !.writesInFlight = @ \cup {JSONStringify(settings)}]

\* fs.writeFile of one writeSettings call completes
finishWrite(s, content) ==
  [s EXCEPT !.writesInFlight = @ \ {content}, !.settingsFile = content]

\* the timer callback of scheduleWriteAppSettings; timeouts of one delay
\* fire in the order they were made
writeTimerFired(s) ==
  writeSettings([s EXCEPT !.dockSettingsWriteTimer = Null, !.writeTimeouts = Tail(@)],
                Head(s.writeTimeouts).next)

\* ipcMain.handle('settings:update', ...)
settingsUpdate(s, patch) ==
  LET next == sanitizeSettings(mergeSettings(s.appSettings, patch))
  IN  writeSettings([s EXCEPT !.appSettings = next], next)

\* ------------------------------------------------------------------ inputs
Point(x, y) == [x |-> PX(x), y |-> PX(y)]

\* cursor positions a poll tick may observe: the left edge, the left strip,
\* the middle, the right strip and the right edge of display 1, and the two
\* edges of display 2
CursorPoints ==
  {Point(1, 500), Point(15, 500), Point(960, 30), Point(1905, 500),
   Point(1919, 500), Point(1921, 300), Point(3199, 300)}

\* where the user may drag the window to
UserPositions == {Point(100, 50), Point(2000, 100)}

\* sizes the user may give the window (width, height)
UserSizes == {[width |-> PX(300), height |-> PX(600)],
              [width |-> PX(2500), height |-> PX(800)]}

DockPatch(d) == [theme |-> "", locale |-> "", dock |-> d]

\* patches sent through settings:update: a wider panel, a fractional width,
\* and a peek strip wider than the panel
UpdatePatches ==
  {DockPatch([NoDockPatch EXCEPT !.shownWidthPx = Num(PX(300))]),
   DockPatch([NoDockPatch EXCEPT !.shownWidthPx = Num(PX(100) + 1)]),
   DockPatch([NoDockPatch EXCEPT !.hiddenWidthPx = Num(PX(200)),
                                 !.shownWidthPx = Num(PX(60))])}

\* settings.json at startup: absent, or holding a remembered height below
\* the 420px floor of calcDockTargets
StartupFiles ==
  {NoFile, DockPatch([NoDockPatch EXCEPT !.shownHeightPx = Num(PX(300))])}

Clock == 1..MaxClock

\* lastOp of a step that needs no naming
Quiet == <<"-">>


\* what a width field of settings.json may hold: nothing, null, text, a
\* numeric string, and numbers below, inside and above the accepted ranges
RawFileValues ==
  {UNDEFINED, JSNULL, BadStr, NumStr(PX(120)), Num(0), Num(PX(6)), Num(PX(60)),
   Num(PX(200)), Num(PX(500)), Num(PX(3000))}

\* settings.json files whose dock section holds such widths
RawFiles ==
  {DockPatch([NoDockPatch EXCEPT !.hiddenWidthPx = h, !.shownWidthPx = w]) :
     h \in RawFileValues, w \in RawFileValues}

\* what a width field of a settings:update patch may hold (a patch travels
\* by structured clone, which carries NaN)
RawPatchValues == {UNDEFINED, NAN, Num(PX(60)), Num(PX(200)), Num(PX(500))}

RawPatches ==
  {DockPatch([NoDockPatch EXCEPT !.hiddenWidthPx = h, !.shownWidthPx = w]) :
     h \in RawPatchValues, w \in RawPatchValues}

\* dock records with whole-number fields below, inside and above the ranges
OversizeDock ==
  [hideDelayMs |-> Num(9000), hiddenWidthPx |-> Num(PX(500)),
   shownWidthPx |-> Num(PX(3000)), shownHeightPx |-> Num(PX(9000))]
UndersizeDock ==
  [hideDelayMs |-> Num(0 - 5), hiddenWidthPx |-> Num(0),
   shownWidthPx |-> Num(PX(0 - 40)), shownHeightPx |-> Num(PX(100))]

\* -------------------------------------------------------------------- Init
\* after app.whenReady (readSettings) and createMainWindow: a 1100x720
\* window with minimum size 900x520, centred on the primary display
InitWith(file) ==
  /\ appSettings = readSettings(file)
  /\ settingsFile = file
  /\ watcher = WatcherStart
  /\ dockTimer = FALSE
  /\ pollIntervals = 0
  /\ dockMode = "null"
  /\ dockPinned = FALSE
  /\ dockDisplayId = 0
  /\ dockFullBounds = Null
  /\ dockShown = FALSE
  /\ dockPrevMinSize = Null
  /\ dockInternalOps = 0
  /\ dockLastHoverAt = 0
  /\ dockHideRequestedAt = 0
  /\ dockSettingsWriteTimer = Null
  /\ writeTimeouts = <<>>
  /\ windowAlwaysOnTop = FALSE
  /\ winBounds = Rect(410, 180, 1100, 720)
  /\ winMinSize = [width |-> PX(900), height |-> PX(520)]
  /\ winAlwaysOnTop = FALSE
  /\ winDestroyed = FALSE
  /\ winFocused = TRUE
  /\ echoMove = NoEchoes
  /\ echoResize = NoEchoes
  /\ releaseTimers = 0
  /\ displays = {1, 2}
  /\ sentDockMode = "center"
  /\ sentDockPinned = FALSE
  /\ writesInFlight = {}
  /\ lastOp = Quiet
  /\ roundTrip = NoRoundTrip

Init == \E file \in StartupFiles : InitWith(file)

\* ----------------------------------------------------------------- actions
\* the renderer invokes window:dock
DockRequestOf(mode, now) ==
  /\ ~winDestroyed
  /\ Commit(windowDock(Cur, mode, now), <<"dock", dockMode, mode>>)

DockRequest ==
  \E mode \in {"left", "center", "right"}, now \in Clock : DockRequestOf(mode, now)

\* what the tick's cursor sample amounts to: "window", "edge", "both", "away"
Observation(cursor) ==
  IF winDestroyed \/ dockMode = "null" THEN "none"
  ELSE
    LET wa == LockedDisplay(dockDisplayId, winBounds, displays).workArea
        w == cursorInWindow(cursor, winBounds)
        e == onEdgeTrigger(dockMode, cursor, wa)
    IN  IF w /\ e THEN "both" ELSE IF w THEN "window" ELSE IF e THEN "edge" ELSE "away"

\* a tick is named when it tears the session down, reveals or hides the
\* window, or runs while the window is shown
TickNote(cursor, after) ==
  IF winDestroyed \/ dockMode = "null" THEN <<"tick", "teardown">>
  ELSE IF after.dockShown # dockShown
  THEN <<"tick", Observation(cursor),
         IF dockHideRequestedAt > 0 THEN "armed" ELSE "clear">>
  ELSE IF dockShown
  THEN <<"tick", IF dockPinned THEN "pinned" ELSE "shown">>
  ELSE Quiet

\* the poll interval fires
PollTickAt(cursor, now) ==
  /\ pollIntervals > 0
  /\ Commit(dockTick(Cur, cursor, now), TickNote(cursor, dockTick(Cur, cursor, now)))

PollTick ==
  \E cursor \in CursorPoints, now \in Clock : PollTickAt(cursor, now)

\* a move or resize event is named by its origin, by whether the counter
\* suppressed it, and by the shown flag it met
EventNote(name) ==
  IF dockMode = "null" THEN <<name, "centre">>
  ELSE <<name, IF dockInternalOps > 0 THEN "suppressed" ELSE "handled",
         IF dockShown THEN "shown" ELSE "hidden">>

\* the user drags the window; the toolkit emits 'move'
UserMoveTo(p) ==
  /\ ~winDestroyed
  /\ p.x # winBounds.x \/ p.y # winBounds.y
  /\ Commit(onMove([Cur EXCEPT !.winBounds = [@ EXCEPT !.x = p.x, !.y = p.y]]),
            EventNote("userMove"))

UserMove == \E p \in UserPositions : UserMoveTo(p)

\* the user resizes the window (within its minimum size); the toolkit emits 'resize'
UserResizeTo(sz) ==
  /\ ~winDestroyed
  /\ sz.width >= winMinSize.width
  /\ sz.height >= winMinSize.height
  /\ sz.width # winBounds.width \/ sz.height # winBounds.height
  /\ Commit(onResize([Cur EXCEPT !.winBounds = [@ EXCEPT !.width = sz.width,
                                                           !.height = sz.height]]),
            EventNote("userResize"))

UserResize == \E sz \in UserSizes : UserResizeTo(sz)

\* the toolkit delivers the 'move' event of an earlier setBounds
EchoMoveOf(origin) ==
  /\ ~winDestroyed
  /\ echoMove[origin] > 0
  /\ Commit(onMove([Cur EXCEPT !.echoMove[origin] = @ - 1]),
            IF origin = "internal" THEN EventNote("echoMove") ELSE Quiet)

EchoMove == \E origin \in {"internal", "plain"} : EchoMoveOf(origin)

\* the toolkit delivers the 'resize' event of an earlier setBounds
EchoResizeOf(origin) ==
  /\ ~winDestroyed
  /\ echoResize[origin] > 0
  /\ Commit(onResize([Cur EXCEPT !.echoResize[origin] = @ - 1]),
            IF origin = "internal" THEN EventNote("echoResize") ELSE Quiet)

EchoResize == \E origin \in {"internal", "plain"} : EchoResizeOf(origin)

\* a setTimeout(.., 0) callback of setBoundsInternal runs
ReleaseInternalOp ==
  /\ releaseTimers > 0
  /\ Commit(releaseInternalOp(Cur), Quiet)

\* a blur or focus event is named while docked, by the state it met
FocusNote(name) ==
  IF dockMode = "null" THEN Quiet
  ELSE <<name, IF ~dockShown THEN "hidden" ELSE IF dockPinned THEN "pinned" ELSE "shown">>

\* the window loses focus
BlurAt(now) ==
  /\ ~winDestroyed
  /\ winFocused
  /\ Commit(onBlur([Cur EXCEPT !.winFocused = FALSE], now), FocusNote("blur"))

Blur == \E now \in Clock : BlurAt(now)

\* the window gains focus
Focus ==
  /\ ~winDestroyed
  /\ ~winFocused
  /\ Commit(onFocus([Cur EXCEPT !.winFocused = TRUE]), FocusNote("focus"))

\* the renderer invokes window:setDockPinned
SetDockPinned ==
  \E value \in BOOLEAN :
    Commit(setDockPinned(Cur, value), Quiet)

\* the renderer invokes window:setAlwaysOnTop
SetAlwaysOnTop ==
  \E value \in BOOLEAN :
    Commit(setAlwaysOnTop(Cur, value), Quiet)

\* the renderer invokes settings:update
SettingsUpdateWith(patch) ==
  Commit(settingsUpdate(Cur, patch), Quiet)

SettingsUpdate == \E patch \in UpdatePatches : SettingsUpdateWith(patch)

\* the 300ms debounce timer fires
WriteTimerFired ==
  /\ writeTimeouts # <<>>
  /\ Commit(writeTimerFired(Cur), Quiet)

\* one of the writes under way reaches the file
WriteDone ==
  \E content \in writesInFlight :
    Commit(finishWrite(Cur, content), Quiet)

\* the window is closed and destroyed; it emits no further events
WindowDestroyed ==
  /\ ~winDestroyed
  /\ Commit([Cur EXCEPT !.winDestroyed = TRUE, !.winFocused = FALSE,
                        !.echoMove = NoEchoes, !.echoResize = NoEchoes],
            Quiet)

\* a monitor is unplugged (one always remains) or plugged in
DisplayChanged ==
  \E present \in (SUBSET {1, 2}) \ {{}} :
    /\ present # displays
    /\ Commit([Cur EXCEPT !.displays = present], Quiet)

\* ------------------------------------------------------------ the program
Next ==
  \/ DockRequest
  \/ PollTick
  \/ UserMove
  \/ UserResize
  \/ EchoMove
  \/ EchoResize
  \/ ReleaseInternalOp
  \/ Blur
  \/ Focus
  \/ SetDockPinned
  \/ SetAlwaysOnTop
  \/ SettingsUpdate
  \/ WriteTimerFired
  \/ WriteDone
  \/ WindowDestroyed
  \/ DisplayChanged

Spec == Init /\ [][Next]_vars

\* --------------------------------------------------------------- scenarios
\* Spec lets every handler run on every input, which is more than can be
\* enumerated.  Each specification below lets the environment do a part of
\* what Next allows, so each of its behaviours is a behaviour of Spec.

\* A dock session driven by the renderer, the cursor and window focus; the
\* user never moves or resizes the window by hand.
NextSession ==
  \/ DockRequest
  \/ PollTick
  \/ EchoMove
  \/ EchoResize
  \/ ReleaseInternalOp
  \/ Blur
  \/ Focus
  \/ SetDockPinned
  \/ WriteTimerFired
  \/ WriteDone

SpecSession == Init /\ [][NextSession]_vars

\* the renderer leaves Center for an edge
StartSession ==
  /\ dockMode = "null"
  /\ \E mode \in {"left", "right"}, now \in Clock : DockRequestOf(mode, now)

\* One dock session, with either startup file, driven by the cursor and
\* window focus; the session is never left.
NextOneSession ==
  \/ StartSession
  \/ PollTick
  \/ EchoMove
  \/ EchoResize
  \/ ReleaseInternalOp
  \/ Blur
  \/ Focus
  \/ SetDockPinned
  \/ WriteTimerFired
  \/ WriteDone

SpecOneSession == Init /\ [][NextOneSession]_vars

\* the user drags the docked window sideways
DockedDrag ==
  /\ dockMode # "null"
  /\ UserMoveTo(Point(100, 180))

\* the user narrows the docked window
DockedResize ==
  /\ dockMode # "null"
  /\ UserResizeTo([width |-> PX(300), height |-> PX(720)])

\* the user resizes the docked window to any of the sizes
DockedResizeAny ==
  /\ dockMode # "null"
  /\ UserResize

\* One dock session, started with default settings, in which the user also
\* drags and resizes the docked window.
NextUser ==
  \/ StartSession
  \/ PollTick
  \/ EchoMove
  \/ EchoResize
  \/ ReleaseInternalOp
  \/ Blur
  \/ Focus
  \/ SetDockPinned
  \/ DockedDrag
  \/ DockedResize

SpecUser == InitWith(NoFile) /\ [][NextUser]_vars

\* the user drags the docked window onto the second monitor
DragAcross ==
  /\ dockMode # "null"
  /\ UserMoveTo(Point(2000, 100))

\* A dock session, started with default settings, in which the user drags
\* the docked window from one monitor to the other.
NextDrag ==
  \/ DockRequest
  \/ PollTick
  \/ EchoMove
  \/ EchoResize
  \/ ReleaseInternalOp
  \/ DragAcross

SpecDrag == InitWith(NoFile) /\ [][NextDrag]_vars

\* the renderer docks to the right or returns to Center
DockRightOrCentre ==
  \E mode \in {"center", "right"}, now \in Clock : DockRequestOf(mode, now)

\* the settings dialog changes the panel width
WidthUpdate ==
  \E patch \in {DockPatch([NoDockPatch EXCEPT !.shownWidthPx = Num(PX(300))]),
                DockPatch([NoDockPatch EXCEPT !.shownWidthPx = Num(PX(100) + 1)])} :
    SettingsUpdateWith(patch)

\* A right-dock session, started with default settings, during which the
\* settings dialog changes the panel width.
NextSettings ==
  \/ DockRightOrCentre
  \/ PollTick
  \/ EchoMove
  \/ EchoResize
  \/ ReleaseInternalOp
  \/ WidthUpdate
  \/ WriteDone

SpecSettings == InitWith(NoFile) /\ [][NextSettings]_vars

\* the renderer leaves Center for the right edge
StartRight ==
  /\ dockMode = "null"
  /\ \E now \in Clock : DockRequestOf("right", now)

\* One right-dock session, with either startup file, in which the user
\* resizes the docked window.
NextResize ==
  \/ StartRight
  \/ PollTick
  \/ EchoMove
  \/ EchoResize
  \/ ReleaseInternalOp
  \/ Blur
  \/ Focus
  \/ DockedResizeAny

SpecResize == Init /\ [][NextResize]_vars

\* the settings dialog sends whole-number fields
IntUpdate == SettingsUpdateWith(DockPatch(OversizeDock))

\* the cursor is on the right edge of the first monitor
PollTickRight == \E now \in Clock : PollTickAt(Point(1919, 500), now)

\* the user widens the docked window beyond the largest panel width
DockedWiden ==
  /\ dockMode # "null"
  /\ UserResizeTo([width |-> PX(2500), height |-> PX(800)])

\* One right-dock session in which every settings value is a whole number:
\* the startup file, the patches of the settings dialog and the sizes the
\* user gives the window; the settings are handed to writeSettings.
NextRange ==
  \/ StartRight
  \/ PollTickRight
  \/ EchoMove
  \/ EchoResize
  \/ ReleaseInternalOp
  \/ DockedWiden
  \/ IntUpdate
  \/ WriteTimerFired

SpecRange ==
  (\E file \in {NoFile, DockPatch(UndersizeDock)} : InitWith(file)) /\ [][NextRange]_vars

\* One dock session, started with default settings, during which the user
\* drags the window onto the other monitor and monitors come and go.
PollTickEdges ==
  \E cursor \in {Point(1919, 500), Point(3199, 300)},
     now \in Clock : PollTickAt(cursor, now)

NextLock ==
  \/ StartRight
  \/ PollTickEdges
  \/ EchoMove
  \/ EchoResize
  \/ ReleaseInternalOp
  \/ Blur
  \/ DragAcross
  \/ DisplayChanged

SpecLock == InitWith(NoFile) /\ [][NextLock]_vars

\* One dock session, started with default settings, that the window does not
\* survive: it is closed while the poll interval is still installed.  The
\* interval keeps firing every DOCK_TICK_MS for as long as it is installed,
\* whatever became of the window.
NextDestroyed ==
  \/ StartSession
  \/ PollTick
  \/ EchoMove
  \/ EchoResize
  \/ ReleaseInternalOp
  \/ SetDockPinned
  \/ WindowDestroyed

\* the interval firing on a destroyed window
PollTickOnDestroyed == winDestroyed /\ PollTick

SpecDestroyed ==
  InitWith(NoFile) /\ [][NextDestroyed]_vars /\ WF_vars(PollTickOnDestroyed)

\* a session starts on the left
StartLeft ==
  /\ dockMode = "null"
  /\ \E now \in Clock : DockRequestOf("left", now)

\* any dock request while a session is live: the same side again, the other
\* side, or center
DockWhileDocked ==
  /\ dockMode # "null"
  /\ \E mode \in {"left", "center", "right"}, now \in Clock : DockRequestOf(mode, now)

\* the settings dialog changes the hidden width while a session is live
DockedHiddenUpdate ==
  /\ dockMode # "null"
  /\ SettingsUpdateWith(DockPatch([NoDockPatch EXCEPT !.hiddenWidthPx = Num(PX(30))]))

\* Sessions that start on the left and are switched, repeated or left by
\* further dock requests, with the hidden width changed on the way.
NextSwitch ==
  \/ StartLeft
  \/ DockWhileDocked
  \/ PollTickRight
  \/ EchoMove
  \/ EchoResize
  \/ ReleaseInternalOp
  \/ DockedHiddenUpdate

SpecSwitch == InitWith(NoFile) /\ [][NextSwitch]_vars

\* Sessions entered and left at will, with default settings, while the user
\* switches the window's own always-on-top flag on and off.
NextOnTop ==
  \/ DockRequest
  \/ PollTickRight
  \/ EchoMove
  \/ EchoResize
  \/ ReleaseInternalOp
  \/ SetAlwaysOnTop

SpecOnTop == InitWith(NoFile) /\ [][NextOnTop]_vars

\* the events of a burst, all within the first millisecond of the clock
StartRightAtOne ==
  /\ dockMode = "null"
  /\ DockRequestOf("right", 1)

PollTickRightAtOne == PollTickAt(Point(1919, 500), 1)

BlurAtOne == BlurAt(1)

\* the user resizes the docked window once the toolkit has delivered what it
\* owed and the internal-operation counter is back at zero
SettledResize ==
  /\ dockInternalOps = 0
  /\ releaseTimers = 0
  /\ echoMove = NoEchoes
  /\ echoResize = NoEchoes
  /\ DockedResizeAny

\* One right-dock session, started with default settings, in which the user
\* resizes the docked window again and again; a timeout that is neither
\* cleared nor replaced fires, and a write under way completes.
NextDebounce ==
  \/ StartRightAtOne
  \/ PollTickRightAtOne
  \/ EchoMove
  \/ EchoResize
  \/ ReleaseInternalOp
  \/ BlurAtOne
  \/ SettledResize
  \/ WriteTimerFired

SpecDebounce ==
  InitWith(NoFile) /\ [][NextDebounce]_vars /\ WF_vars(WriteTimerFired)

\* Sessions entered, switched and left at will, with default settings, while
\* the panel is revealed at the edge, pinned and unpinned, blurred and focused.
NextPin ==
  \/ DockRequest
  \/ PollTickRight
  \/ EchoMove
  \/ EchoResize
  \/ ReleaseInternalOp
  \/ Blur
  \/ Focus
  \/ SetDockPinned

SpecPin == InitWith(NoFile) /\ [][NextPin]_vars

\* the user drags the docked window sideways and upwards
DockedDragUp ==
  /\ dockMode # "null"
  /\ UserMoveTo(Point(100, 50))

\* One right-dock session, started with default settings, in which the user
\* drags and resizes the docked window, hidden or revealed at the edge,
\* before and after the toolkit has delivered the events it owes.
NextMove ==
  \/ StartRight
  \/ PollTickRight
  \/ EchoMove
  \/ EchoResize
  \/ ReleaseInternalOp
  \/ Blur
  \/ DockedDragUp
  \/ DockedResizeAny

SpecMove == InitWith(NoFile) /\ [][NextMove]_vars

\* the note of a tick that also tells what the cursor sample amounted to
\* when the window was shown before and after
TickNoteObserved(cursor, after) ==
  IF ~winDestroyed /\ dockMode # "null" /\ dockShown /\ after.dockShown
  THEN <<"tick", IF dockPinned THEN "pinned" ELSE "shown", Observation(cursor)>>
  ELSE TickNote(cursor, after)

\* the poll interval fires, the cursor being on the left edge of display 1,
\* in its middle or on its right edge
PollTickObserved ==
  \E cursor \in {Point(1, 500), Point(960, 30), Point(1919, 500)}, now \in Clock :
    /\ pollIntervals > 0
    /\ Commit(dockTick(Cur, cursor, now), TickNoteObserved(cursor, dockTick(Cur, cursor, now)))

\* Sessions entered, switched and left at will, with default settings, the
\* cursor on the edges or in the middle of the display, the panel blurred
\* and focused.
NextLeave ==
  \/ DockRequest
  \/ PollTickObserved
  \/ EchoMove
  \/ EchoResize
  \/ ReleaseInternalOp
  \/ Blur
  \/ Focus

SpecLeave == InitWith(NoFile) /\ [][NextLeave]_vars

\* One right-dock session, started with default settings, with the cursor
\* resting on the right edge of the screen, outside the window hidden or
\* shown; the window loses focus and is not focused again.  The interval
\* keeps firing for as long as it is installed.
NextIdle ==
  \/ StartRight
  \/ PollTickRight
  \/ EchoMove
  \/ EchoResize
  \/ ReleaseInternalOp
  \/ Blur
  \/ SetDockPinned

\* the interval firing on a window that is shown without focus
PollTickOnIdle == dockShown /\ ~winFocused /\ PollTickRight

SpecIdle == InitWith(NoFile) /\ [][NextIdle]_vars /\ WF_vars(PollTickOnIdle)

\* the poll interval fires, the cursor on the right edge of the screen; the
\* step is named whatever it finds
PollTickNamed ==
  /\ pollIntervals > 0
  /\ Commit(dockTick(Cur, Point(1919, 500), 1), <<"tick", Observation(Point(1919, 500))>>)

\* the settings dialog changes the panel width or the strip width while a
\* session is live
DockedWidthUpdate ==
  /\ dockMode # "null"
  /\ \E patch \in {DockPatch([NoDockPatch EXCEPT !.shownWidthPx = Num(PX(300))]),
                    DockPatch([NoDockPatch EXCEPT !.hiddenWidthPx = Num(PX(30))])} :
       SettingsUpdateWith(patch)

\* One right-dock session, started with default settings, the panel revealed
\* at the edge and hidden by blur, during which the settings dialog changes
\* the two widths.
NextWidths ==
  \/ StartRightAtOne
  \/ PollTickNamed
  \/ EchoMove
  \/ EchoResize
  \/ ReleaseInternalOp
  \/ BlurAtOne
  \/ DockedWidthUpdate
  \/ WriteDone

SpecWidths == InitWith(NoFile) /\ [][NextWidths]_vars

\* One right-dock session, started with default settings, in which the user
\* resizes the docked window (a debounced write) and the settings dialog
\* changes a width (an immediate write); the debounce timeout fires and the
\* writes under way complete.
NextPersist ==
  \/ StartRightAtOne
  \/ PollTickRightAtOne
  \/ EchoMove
  \/ EchoResize
  \/ ReleaseInternalOp
  \/ SettledResize
  \/ DockedWidthUpdate
  \/ WriteTimerFired
  \/ WriteDone

SpecPersist == InitWith(NoFile) /\ [][NextPersist]_vars

\* One right-dock session, started with default settings, the panel revealed
\* at the edge and hidden by blur, during which the settings dialog sets the
\* panel width to 300 or to 100.5.
NextSettle ==
  \/ StartRightAtOne
  \/ PollTickNamed
  \/ EchoMove
  \/ EchoResize
  \/ ReleaseInternalOp
  \/ BlurAtOne
  \/ WidthUpdate
  \/ WriteDone

SpecSettle == InitWith(NoFile) /\ [][NextSettle]_vars

\* values of dock.hideDelayMs: none, the default and the largest accepted
HideDelays == {0, 250, 5000}

\* cursor samples of a right-dock session: away from the window, on the
\* hidden strip, on the screen edge
SessionCursors == {Point(960, 30), Point(1905, 500), Point(1919, 500)}

PollTickNear == \E cursor \in SessionCursors : PollTickAt(cursor, 1)

\* One right-dock session driven by the cursor, window focus and the pin,
\* started with a settings.json that holds one of the hide delays.
NextDelay ==
  \/ StartRightAtOne
  \/ PollTickNear
  \/ EchoMove
  \/ EchoResize
  \/ ReleaseInternalOp
  \/ BlurAtOne
  \/ Focus
  \/ SetDockPinned

SpecDelay ==
  /\ \E d \in HideDelays : InitWith(DockPatch([NoDockPatch EXCEPT !.hideDelayMs = Num(d)]))
  /\ [][NextDelay]_vars

\* One right-dock session, started with default settings, the panel revealed
\* at the edge, hidden by blur and dragged by the user.  A zero-delay timeout
\* that is pending runs.
NextRelease ==
  \/ StartRightAtOne
  \/ PollTickRightAtOne
  \/ EchoMove
  \/ EchoResize
  \/ ReleaseInternalOp
  \/ BlurAtOne
  \/ DockedDragUp

SpecRelease == InitWith(NoFile) /\ [][NextRelease]_vars /\ WF_vars(ReleaseInternalOp)

\* ---- the dev-electron script on its own
\* a step of the script leaves the Electron process as it is
WatcherStep(w) ==
  /\ watcher' = w
  /\ UNCHANGED <<appSettings, dockTimer, pollIntervals, dockMode, dockPinned,
                 dockDisplayId, dockFullBounds, dockShown, dockPrevMinSize,
                 dockInternalOps, dockLastHoverAt, dockHideRequestedAt,
                 dockSettingsWriteTimer, writeTimeouts, windowAlwaysOnTop, winBounds,
                 winMinSize, winAlwaysOnTop, winDestroyed, winFocused, echoMove,
                 echoResize, releaseTimers, displays, sentDockMode, sentDockPinned,
                 writesInFlight, settingsFile, lastOp, roundTrip>>

\* fs.watch reports a change under dist-electron
FileChanged ==
  /\ watcher.requests + (IF watcher.debounceTimer THEN 1 ELSE 0) < MaxRestarts
  /\ WatcherStep(scheduleRestart(watcher))

\* the 200ms timeout of scheduleRestart fires
DebounceFired ==
  /\ watcher.debounceTimer
  /\ WatcherStep(debounceFired(watcher))

\* an Electron process exits, killed or closed by the user
ChildExit ==
  \E p \in watcher.alive : WatcherStep(childExited(watcher, p))

\* the 1500ms timeout of a pending stopElectron fires
KillTimeoutFired ==
  /\ watcher.killTimeout
  /\ WatcherStep(killTimeoutFired(watcher))

\* The script from its start.  A timeout that is armed fires.
NextWatcher ==
  \/ FileChanged
  \/ DebounceFired
  \/ ChildExit
  \/ KillTimeoutFired

SpecWatcher ==
  /\ InitWith(NoFile)
  /\ [][NextWatcher]_vars
  /\ WF_vars(KillTimeoutFired)

\* ---- calcDockTargets on its own
\* a 1366x768 panel at 200% scaling, less the taskbar
SmallDisplay == [id |-> 3, workArea |-> Rect(0, 0, 683, 344)]

TargetDisplays == AllDisplays \cup {SmallDisplay}

TargetDisplayOf(id) == CHOOSE d \in TargetDisplays : d.id = id

\* dock settings inside the ranges of sanitizeSettings: the defaults, the
\* smallest and the largest widths, and a width that is not a whole number
TargetDocks ==
  {getDefaultSettings.dock,
   [getDefaultSettings.dock EXCEPT !.hiddenWidthPx = Num(PX(6)), !.shownWidthPx = Num(PX(60))],
   [getDefaultSettings.dock EXCEPT !.hiddenWidthPx = Num(PX(200)), !.shownWidthPx = Num(PX(2000))],
   [getDefaultSettings.dock EXCEPT !.shownWidthPx = Num(PX(100) + 1)]}

\* dockFullBounds: none, the start-up window, one taller and lower than any
\* display, one above the top of the screen
TargetFullBounds ==
  {Null,
   [width |-> PX(1100), height |-> PX(720), y |-> PX(180)],
   [width |-> PX(300), height |-> PX(5000), y |-> PX(2000)],
   [width |-> PX(300), height |-> PX(200), y |-> 0 - PX(50)]}

\* the globals and the display a call of calcDockTargets reads
InitTargets ==
  /\ \E d \in TargetDocks : appSettings = [getDefaultSettings EXCEPT !.dock = d]
  /\ dockMode \in {"left", "right"}
  /\ dockDisplayId \in {d.id : d \in TargetDisplays}
  /\ dockFullBounds \in TargetFullBounds
  /\ displays = {dockDisplayId}
  /\ settingsFile = NoFile
  /\ watcher = WatcherStart
  /\ dockTimer = TRUE
  /\ pollIntervals = 1
  /\ dockPinned = FALSE
  /\ dockShown = FALSE
  /\ dockPrevMinSize = [width |-> PX(900), height |-> PX(520)]
  /\ dockInternalOps = 0
  /\ dockLastHoverAt = 0
  /\ dockHideRequestedAt = 0
  /\ dockSettingsWriteTimer = Null
  /\ writeTimeouts = <<>>
  /\ windowAlwaysOnTop = FALSE
  /\ winBounds = Rect(410, 180, 1100, 720)
  /\ winMinSize = [width |-> NumberOf(appSettings.dock.hiddenWidthPx), height |-> PX(520)]
  /\ winAlwaysOnTop = TRUE
  /\ winDestroyed = FALSE
  /\ winFocused = TRUE
  /\ echoMove = NoEchoes
  /\ echoResize = NoEchoes
  /\ releaseTimers = 0
  /\ sentDockMode = dockMode
  /\ sentDockPinned = FALSE
  /\ writesInFlight = {}
  /\ lastOp = Quiet
  /\ roundTrip = NoRoundTrip

\* calcDockTargets is called and one of the rectangles it returns, exactly
\* as returned, is kept in the place of the window's bounds
TargetsOf(which) ==
  /\ lastOp = Quiet
  /\ Commit([Cur EXCEPT !.winBounds =
                calcDockTargets(winBounds, dockMode, TargetDisplayOf(dockDisplayId),
                                appSettings, dockFullBounds)[which]],
            <<"targets", which>>)

ShownTarget == TargetsOf("shown")

HiddenTarget == TargetsOf("hidden")

NextTargets ==
  \/ ShownTarget
  \/ HiddenTarget

SpecTargets == InitTargets /\ [][NextTargets]_vars

\* the renderer sends a patch with arbitrary width fields
RawUpdate == \E patch \in RawPatches : SettingsUpdateWith(patch)

\* The settings functions alone: readSettings on an arbitrary settings.json
\* at startup, then mergeSettings and sanitizeSettings on arbitrary patches;
\* the window stays in Center.
NextSanitize ==
  \/ RawUpdate
  \/ WriteDone

SpecSanitize == (\E file \in RawFiles \cup {NoFile} : InitWith(file)) /\ [][NextSanitize]_vars

\* ------------------------------------------------------------- properties
\* the work area of the display that governs the dock geometry
LockedWorkArea == LockedDisplay(dockDisplayId, winBounds, displays).workArea

\* the rectangles of the current session, as applied to the window
DockTargets ==
  calcDockTargets(winBounds, dockMode, LockedDisplay(dockDisplayId, winBounds, displays),
                  appSettings, dockFullBounds)
ShownRectangle == RoundRect(DockTargets.shown)
HiddenRectangle == RoundRect(DockTargets.hidden)

\* the session state of a program state
SessionState(s) ==
  [mode |-> s.dockMode, displayId |-> s.dockDisplayId, fullBounds |-> s.dockFullBounds,
   shown |-> s.dockShown, pinned |-> s.dockPinned,
   hideRequestedAt |-> s.dockHideRequestedAt, prevMinSize |-> s.dockPrevMinSize,
   timer |-> s.dockTimer]

\* C1: the echo of a bounds change made through setBoundsInternal, on
\* whichever turn of the event loop it is delivered (before or after the
\* deferred decrement of dockInternalOps), changes neither dockFullBounds nor
\* appSettings.dock.
EchoNeverHandled ==
  [][(EchoMoveOf("internal") \/ EchoResizeOf("internal"))
       => (dockFullBounds' = dockFullBounds /\ appSettings'.dock = appSettings.dock)]_vars

\* C2: while a dock session lasts (the mode is left or right before and
\* after the step), no step changes dockDisplayId.
DisplayLockKept ==
  [][(dockMode # "null" /\ dockMode' # "null") => dockDisplayId' = dockDisplayId]_vars

\* C3: every rectangle applied through setBoundsInternal while the mode is
\* right and the window is shown has its right edge exactly 10px inside the
\* right edge of the governing work area.
RightEdgeFlush ==
  [][(dockMode' = "right" /\ dockShown' /\ releaseTimers' > releaseTimers)
       => winBounds'.x + winBounds'.width =
            LockedWorkArea'.x + LockedWorkArea'.width - PX(10)]_vars

\* C4: in a state left by handling dock('right'), handling dock('right')
\* again at once leaves the session state as it is.
DockRightIdempotent ==
  (lastOp[1] = "dock" /\ lastOp[3] = "right")
    => \A now \in Clock :
         SessionState(windowDock(Cur, "right", now)) = SessionState(Cur)

\* C5: when dock('right'), dock('center'), dock('right') are handled in this
\* order with no user resize in between, the second session starts with the
\* dockFullBounds.height the first session started with.
HeightRoundTrip ==
  [][(roundTrip.stage = 2 /\ \E now \in Clock : DockRequestOf("right", now))
       => dockFullBounds'.height = roundTrip.height]_vars

\* C6: the blur handler, run while the window is docked, shown and not
\* pinned, itself sets shown to false, sets hideRequestedAt to now (> 0) and
\* applies the hidden rectangle through setBoundsInternal.
BlurHidesAtOnce ==
  [][\A now \in Clock :
       (dockMode # "null" /\ dockShown /\ ~dockPinned /\ BlurAt(now))
         => /\ ~dockShown'
            /\ dockHideRequestedAt' = now
            /\ dockHideRequestedAt' > 0
            /\ winBounds' = HiddenRectangle'
            /\ releaseTimers' = releaseTimers + 1]_vars

BlurHidWindow ==
  /\ lastOp = <<"blur", "shown">>
  /\ ~dockShown
  /\ dockHideRequestedAt > 0
  /\ winBounds = HiddenRectangle
  /\ winBounds # ShownRectangle

\* the step just taken, by the name its note starts with (every blur,
\* focus, user move and user resize, and every poll tick that meets or
\* leaves the window shown, is noted)
StepIs(names) == lastOp'[1] \in names

OnDockedEdge(cursor) ==
  LET wa == LockedWorkArea
  IN  /\ wa.x <= cursor.x
      /\ cursor.x <= wa.x + wa.width
      /\ wa.y <= cursor.y
      /\ cursor.y <= wa.y + wa.height
      /\ IF dockMode = "left" THEN cursor.x <= wa.x + PX(2)
         ELSE cursor.x >= wa.x + wa.width - PX(2)

\* C8: a poll tick that runs while the window is docked and hidden with
\* hideRequestedAt = 0, and that observes the cursor on the edge trigger of
\* the docked side, sets shown to true and leaves the shown rectangle on the
\* window.
EdgeReveals ==
  [][\A cursor \in CursorPoints, now \in Clock :
       (dockMode # "null" /\ ~dockShown /\ dockHideRequestedAt = 0
        /\ OnDockedEdge(cursor) /\ PollTickAt(cursor, now))
         => (dockShown' /\ winBounds' = ShownRectangle')]_vars

EdgeRevealedWindow ==
  /\ lastOp = <<"tick", "edge", "clear">>
  /\ dockMode = "right"
  /\ dockShown
  /\ winBounds = ShownRectangle
  /\ winBounds # HiddenRectangle

\* C9: a user resize handled (dockInternalOps = 0) while the window is
\* docked right and shown sets dockFullBounds.width to the new width and
\* shownWidthPx to that width clamped to [60, 2000], and re-applies a
\* rectangle whose right edge is 10px inside the work area's right edge.
ResizeRemembered ==
  [][\A sz \in UserSizes :
       (dockMode = "right" /\ dockShown /\ dockInternalOps = 0 /\ UserResizeTo(sz))
         => /\ dockFullBounds'.width = sz.width
            /\ appSettings'.dock.shownWidthPx = Num(Max2(PX(60), Min2(PX(2000), sz.width)))
            /\ releaseTimers' = releaseTimers + 1
            /\ winBounds'.x + winBounds'.width =
                 LockedWorkArea'.x + LockedWorkArea'.width - PX(10)]_vars

WideResizeRemembered ==
  /\ lastOp = <<"userResize", "handled", "shown">>
  /\ dockMode = "right"
  /\ dockFullBounds.width = PX(2500)
  /\ appSettings.dock.shownWidthPx = Num(PX(2000))
  /\ winBounds.x + winBounds.width = LockedWorkArea.x + LockedWorkArea.width - PX(10)

\* C10: in every reachable state the dock settings, whether they came from
\* readSettings at startup or from mergeSettings and sanitizeSettings on a
\* patch, have hiddenWidthPx <= shownWidthPx whenever both are numbers.
DockWidthsOrdered ==
  (appSettings.dock.hiddenWidthPx.k = "number" /\ appSettings.dock.shownWidthPx.k = "number")
    => appSettings.dock.hiddenWidthPx.n <= appSettings.dock.shownWidthPx.n

\* a settings field is a number within [min, max]
Within(v, min, max) == v.k = "number" /\ min <= v.n /\ v.n <= max

\* every field of a dock record is inside its range (shownHeightPx may be
\* absent: undefined in memory, left out of the file)
DockInRange(d) ==
  /\ Within(d.hideDelayMs, 0, 5000)
  /\ Within(d.hiddenWidthPx, PX(6), PX(200))
  /\ Within(d.shownWidthPx, PX(60), PX(2000))
  /\ d.shownHeightPx = UNDEFINED \/ Within(d.shownHeightPx, PX(200), PX(5000))

\* C11: with whole-number inputs, the settings in memory (loaded at startup,
\* after settings:update, after a docked resize) and every record handed to
\* writeSettings (waiting for the debounce timer or being written) have all
\* dock fields inside their ranges.
SettingsInRange ==
  /\ DockInRange(appSettings.dock)
  /\ dockSettingsWriteTimer # Null => DockInRange(dockSettingsWriteTimer.dock)
  /\ \A w \in writesInFlight : DockInRange(w.dock)

OversizeClampedAndWritten ==
  /\ dockMode = "right"
  /\ appSettings.dock.shownWidthPx = Num(PX(2000))
  /\ appSettings.dock.hiddenWidthPx = Num(PX(200))
  /\ appSettings.dock.hideDelayMs = Num(5000)
  /\ \E w \in writesInFlight : w.dock.shownWidthPx = Num(PX(2000))

\* C12: whatever settings.json holds (nothing, a dock record lacking fields,
\* null, text or out-of-range numbers in a field), readSettings returns a
\* record whose dock fields are numbers inside their ranges.
ReadSettingsValid == DockInRange(readSettings(settingsFile).dock)

\* the display that has to govern the geometry: the one dockDisplayId names
\* when it is connected, else the one matching the window
GoverningDisplay ==
  IF dockDisplayId \in displays THEN DisplayOf(dockDisplayId)
  ELSE getDisplayMatching(winBounds, displays)

\* rectangle r sits on the docked side of work area wa, 10px from its edge,
\* and within its height
DockedOn(r, mode, wa) ==
  /\ wa.y <= r.y
  /\ r.y + r.height <= wa.y + wa.height
  /\ IF mode = "left" THEN r.x = wa.x + PX(10)
     ELSE r.x + r.width = wa.x + wa.width - PX(10)

DestroyedWindowTornDown ==
  /\ [][(winDestroyed /\ dockMode # "null" /\ lastOp'[1] = "tick")
          => /\ dockMode' = "null"
             /\ ~dockPinned'
             /\ dockFullBounds' = Null
             /\ dockDisplayId' = 0
             /\ ~dockTimer'
             /\ winBounds' = winBounds
             /\ winMinSize' = winMinSize
             /\ releaseTimers' = releaseTimers
             /\ echoMove' = echoMove
             /\ echoResize' = echoResize]_vars
  /\ (winDestroyed /\ dockMode # "null") ~> (dockMode = "null" /\ ~dockTimer)

TornDownAfterDestroy ==
  /\ winDestroyed
  /\ lastOp = <<"tick", "teardown">>
  /\ dockMode = "null"
  /\ ~dockTimer
  /\ dockFullBounds = Null

\* minWidth, minHeight of createMainWindow
MainWindowMinSize == [width |-> PX(900), height |-> PX(520)]

\* C15: whenever no session is live on a live window, the window's minimum
\* size is the one it had before any session began, whatever dock requests
\* (switching sides included) and settings changes the sessions saw; and
\* during a session that size is the one remembered for the restore.
MinSizeRestored ==
  /\ (dockMode = "null" /\ ~winDestroyed)
       => (winMinSize = MainWindowMinSize /\ dockPrevMinSize = Null)
  /\ dockMode # "null" => dockPrevMinSize = MainWindowMinSize

MinSizeBackAfterSwitch ==
  /\ lastOp = <<"dock", "right", "center">>
  /\ ~winDestroyed
  /\ appSettings.dock.hiddenWidthPx = Num(PX(30))
  /\ winMinSize = MainWindowMinSize

\* C16: a live window is always-on-top exactly when a session is live or
\* the user's flag windowAlwaysOnTop is set (so once a session has ended it
\* shows the user's latest choice), and setAlwaysOnTop during a session
\* changes the remembered flag and nothing of the window or the session.
OnTopTracksSessionAndPin ==
  /\ [](~winDestroyed
          => (winAlwaysOnTop <=> (dockMode # "null" \/ windowAlwaysOnTop)))
  /\ [][(dockMode # "null" /\ ~winDestroyed /\ SetAlwaysOnTop)
          => /\ winAlwaysOnTop' = winAlwaysOnTop
             /\ SessionState(Cur)' = SessionState(Cur)
             /\ winBounds' = winBounds
             /\ winMinSize' = winMinSize]_vars

PinKeptAfterSession ==
  /\ lastOp[1] = "dock"
  /\ lastOp[3] = "center"
  /\ lastOp[2] # "null"
  /\ ~winDestroyed
  /\ windowAlwaysOnTop
  /\ winAlwaysOnTop

\* C17: whatever dock requests were made, at most one poll interval exists,
\* one exists exactly when a session is live (and dockTimer holds it), and
\* in Center, the interval having been cleared by stopDocking, no poll tick
\* can run at all, so none changes the session state or the window bounds.
PollTimerDiscipline ==
  /\ pollIntervals <= 1
  /\ pollIntervals = 1 <=> dockMode # "null"
  /\ dockTimer <=> pollIntervals = 1
  /\ dockMode = "null" => ~ENABLED PollTick

TimerClearedOnCentre ==
  /\ lastOp[1] = "dock"
  /\ lastOp[2] # "null"
  /\ lastOp[3] = "center"
  /\ sentDockMode = "center"
  /\ pollIntervals = 0
  /\ ~dockTimer

\* C18: however many settings changes went through applyAppSettings since
\* the debounce timer last fired, one timeout is pending, made by the last
\* change with a delay of 300ms and carrying the settings of that change; a
\* change writes nothing itself; the timeout's firing issues one
\* writeSettings call with those settings and leaves no timeout behind; and
\* a pending timeout does fire.
DebouncedWrite ==
  /\ [](/\ Len(writeTimeouts) <= 1
        /\ dockSettingsWriteTimer # Null <=> writeTimeouts # <<>>
        /\ writeTimeouts # <<>>
             => writeTimeouts[1] = [next |-> appSettings, ms |-> 300])
  /\ [][appSettings' # appSettings
          => (writesInFlight' = writesInFlight /\ Len(writeTimeouts') = 1)]_vars
  /\ [][Len(writeTimeouts') < Len(writeTimeouts)
          => /\ writesInFlight' = writesInFlight \cup {JSONStringify(appSettings)}
             /\ writeTimeouts' = <<>>
             /\ appSettings' = appSettings]_vars
  /\ (writeTimeouts # <<>> /\ writesInFlight = {}) ~> (writeTimeouts = <<>>)

\* two resizes (one of the shown panel to 300px, one of the hidden strip to
\* a height of 800px) and a single write, of the settings after the second
BurstWrittenOnce ==
  /\ appSettings.dock.shownWidthPx = Num(PX(300))
  /\ appSettings.dock.shownHeightPx = Num(PX(800))
  /\ writeTimeouts = <<>>
  /\ writesInFlight = {JSONStringify(appSettings)}
  /\ settingsFile = NoFile

\* a number held in 1/Sub pixels is a whole number of pixels
IsWhole(v) == v % Sub = 0

\* C19: the shown and the hidden rectangle calcDockTargets returns, for any
\* work area, any dock settings inside their ranges and any dockFullBounds,
\* have whole-number fields and lie inside the work area.
TargetsInsideWorkArea ==
  lastOp[1] = "targets"
    => LET wa == TargetDisplayOf(dockDisplayId).workArea
           r == winBounds
       IN  /\ IsWhole(r.x) /\ IsWhole(r.y) /\ IsWhole(r.width) /\ IsWhole(r.height)
           /\ r.x >= wa.x
           /\ r.y >= wa.y
           /\ r.x + r.width <= wa.x + wa.width
           /\ r.y + r.height <= wa.y + wa.height

\* C20: the width calcDockTargets returns is shownWidthPx held between 60
\* and the work area's width less 20 for the shown rectangle, hiddenWidthPx
\* held between 6 and 200 for the hidden one; x is 10 from the work area's
\* left edge in left mode, and leaves 10 to its right edge in right mode.
HorizontalGeometry ==
  lastOp[1] = "targets"
    => LET wa == TargetDisplayOf(dockDisplayId).workArea
           w == IF lastOp[2] = "shown"
                THEN Max2(PX(60), Min2(wa.width - PX(20), appSettings.dock.shownWidthPx.n))
                ELSE Max2(PX(6), Min2(PX(200), appSettings.dock.hiddenWidthPx.n))
       IN  /\ winBounds.width = w
           /\ winBounds.x = IF dockMode = "left" THEN wa.x + PX(10)
                            ELSE wa.x + wa.width - w - PX(10)

\* work area {0, 0, 1920, 1080}, hidden 10, shown 200, left: shown x = 10,
\* width = 200
ScenarioALeftShown ==
  /\ lastOp = <<"targets", "shown">>
  /\ dockMode = "left"
  /\ dockDisplayId = 1
  /\ appSettings.dock = getDefaultSettings.dock
  /\ winBounds.x = PX(10)
  /\ winBounds.width = PX(200)

\* C21: whenever mode is center, pinned and shown are false, dockFullBounds
\* and dockDisplayId are empty, hideRequestedAt is 0 and no poll interval
\* exists; setDockPinned(v) requested then returns false and leaves pinned
\* false; and getDockPinned returns the pinned flag in every state.
NoSessionStateInCentre ==
  /\ getDockPinned(Cur) = dockPinned
  /\ dockMode = "null"
       => /\ ~dockPinned
          /\ ~dockShown
          /\ dockFullBounds = Null
          /\ dockDisplayId = 0
          /\ dockHideRequestedAt = 0
          /\ ~dockTimer
          /\ pollIntervals = 0
          /\ \A v \in BOOLEAN :
               /\ ~setDockPinnedResult(Cur, v)
               /\ ~setDockPinned(Cur, v).dockPinned

\* a session that was pinned at some point (the renderer was told so) or
\* blurred has just been ended by dock('center')
CentreAfterSession ==
  /\ lastOp[1] = "dock"
  /\ lastOp[2] # "null"
  /\ lastOp[3] = "center"
  /\ ~winFocused
  /\ dockMode = "null"
  /\ ~dockPinned

\* C22: a move or resize event, the user's or the echo of a setBoundsInternal
\* call, that is handled while docked with dockInternalOps > 0 changes none
\* of dockFullBounds, appSettings, shown, hideRequestedAt and the counter,
\* schedules no settings write, and calls setBounds neither directly (no new
\* event is owed, no release is pending afterwards that was not before) nor
\* otherwise: the bounds stay as the event found them.
SuppressedIsNoOp ==
  [][(dockMode # "null" /\ dockInternalOps > 0
      /\ StepIs({"echoMove", "echoResize", "userMove", "userResize"}))
       => /\ dockFullBounds' = dockFullBounds
          /\ appSettings' = appSettings
          /\ dockShown' = dockShown
          /\ dockHideRequestedAt' = dockHideRequestedAt
          /\ dockInternalOps' = dockInternalOps
          /\ dockSettingsWriteTimer' = dockSettingsWriteTimer
          /\ writeTimeouts' = writeTimeouts
          /\ writesInFlight' = writesInFlight
          /\ releaseTimers' = releaseTimers
          /\ echoMove'.internal <= echoMove.internal
          /\ echoResize'.internal <= echoResize.internal
          /\ StepIs({"echoMove", "echoResize"}) => winBounds' = winBounds
          /\ StepIs({"userMove"})
               => (winBounds'.width = winBounds.width /\ winBounds'.height = winBounds.height
                   /\ winBounds'.x = PX(100) /\ winBounds'.y = PX(50))
          /\ StepIs({"userResize"})
               => (winBounds'.x = winBounds.x /\ winBounds'.y = winBounds.y
                   /\ [width |-> winBounds'.width, height |-> winBounds'.height]
                        \in UserSizes)]_vars

\* the user dragged the docked window while the counter was positive, and
\* the window stayed where the user put it
DragSuppressed ==
  /\ lastOp[1] = "userMove"
  /\ lastOp[2] = "suppressed"
  /\ dockInternalOps > 0
  /\ winBounds.x = PX(100)
  /\ winBounds.y = PX(50)
  /\ dockFullBounds.y = PX(180)

\* C23: a user resize handled while docked and hidden, whatever the width it
\* gives the window, leaves dockFullBounds.width and shownWidthPx as they
\* were; it takes the window's height and y into dockFullBounds, and puts
\* the window back on the hidden rectangle (hidden width, docked edge kept).
HiddenResizeKeepsWidth ==
  [][\A sz \in UserSizes :
       (dockMode # "null" /\ ~dockShown /\ dockInternalOps = 0 /\ UserResizeTo(sz))
         => /\ dockFullBounds'.width = dockFullBounds.width
            /\ appSettings'.dock.shownWidthPx = appSettings.dock.shownWidthPx
            /\ dockFullBounds'.height = sz.height
            /\ dockFullBounds'.y = winBounds.y
            /\ ~dockShown'
            /\ releaseTimers' = releaseTimers + 1
            /\ winBounds' = HiddenRectangle'
            /\ winBounds'.width = appSettings.dock.hiddenWidthPx.n
            /\ winBounds'.x + winBounds'.width =
                 LockedWorkArea'.x + LockedWorkArea'.width - PX(10)]_vars

\* the hidden strip was dragged out to 2500x800: the panel width is still
\* the one the session started with
HiddenStripWidened ==
  /\ lastOp = <<"userResize", "handled", "hidden">>
  /\ dockMode = "right"
  /\ dockFullBounds.width = PX(1100)
  /\ dockFullBounds.height = PX(800)
  /\ appSettings.dock.shownWidthPx = Num(PX(200))
  /\ winBounds.width = PX(10)

\* C24: in sessions during which the user never resizes the window, the
\* dock('center') that ends a session leaves the window with the width and
\* height it had before the session's first dock request (the 1100x720 of
\* the start-up window), centred in the work area of the display matching it.
CentreRestoresSize ==
  (lastOp[1] = "dock" /\ lastOp[2] # "null" /\ lastOp[3] = "center")
    => LET wa == getDisplayMatching(winBounds, displays).workArea
       IN  /\ winBounds.width = PX(1100)
           /\ winBounds.height = PX(720)
           /\ winBounds.x = wa.x + MathRoundHalf(wa.width - winBounds.width)
           /\ winBounds.y = wa.y + MathRoundHalf(wa.height - winBounds.height)

\* C25: while the window is docked and hidden with hideRequestedAt > 0, a
\* poll tick that reveals it has sampled the cursor inside the window's
\* bounds (the edge trigger alone reveals nothing); and hideRequestedAt goes
\* from positive to 0 only in a tick that sampled the cursor inside the
\* window, in a focus event, in a dock request or in the teardown of the
\* session.
RearmAfterBlurHide ==
  [][/\ (dockMode # "null" /\ ~dockShown /\ dockHideRequestedAt > 0
         /\ StepIs({"tick"}) /\ dockShown')
          => lastOp'[2] \in {"window", "both"}
     /\ (dockHideRequestedAt > 0 /\ dockHideRequestedAt' = 0)
          => \/ StepIs({"focus", "dock"})
             \/ StepIs({"tick"}) /\ lastOp'[2] \in {"window", "both", "teardown"}]_vars

\* hidden by a blur, the window was revealed by a tick that found the cursor
\* on the strip
RevealedFromStrip ==
  /\ lastOp = <<"tick", "window", "armed">>
  /\ dockShown
  /\ dockHideRequestedAt = 0
  /\ ~winFocused

\* C26: a poll tick on a live window that is docked, shown and not pinned
\* leaves it shown wherever the cursor is; and shown goes from true to false
\* only in a blur, in a dock request or in the teardown of the session.
TicksNeverHide ==
  [][/\ (dockMode # "null" /\ dockShown /\ ~dockPinned /\ ~winDestroyed
         /\ StepIs({"tick"}))
          => dockShown'
     /\ (dockShown /\ ~dockShown')
          => \/ StepIs({"blur", "dock"})
             \/ lastOp' = <<"tick", "teardown">>]_vars

\* the cursor was sampled away from the window and from the edge, and the
\* unpinned panel is still shown
ShownWithCursorAway ==
  /\ lastOp = <<"tick", "shown", "away">>
  /\ dockShown
  /\ ~dockPinned
  /\ winBounds = ShownRectangle

\* C27: a window that is docked, shown, not pinned and without focus, the
\* cursor staying outside it, becomes hidden under fair poll ticks.
\* (Being pinned or focused again ends the case the claim is about.)
IdlePanelCollapses ==
  (dockMode # "null" /\ dockShown /\ ~dockPinned /\ ~winFocused /\ ~winDestroyed)
    ~> (~dockShown \/ dockPinned \/ winFocused)

\* C28: handling dock(left|right) from Center sets mode to the requested
\* side, dockDisplayId to the display matching the window, dockFullBounds to
\* the window's width and y with the height of settings.shownHeightPx when it
\* is present and the window's height otherwise, shown to false and
\* hideRequestedAt to 0, forces always-on-top, sets the minimum width to
\* hiddenWidthPx, sends dockModeChanged(mode), applies the hidden rectangle and
\* starts the poll timer when none is running.
SessionStart ==
  [][\A mode \in {"left", "right"} :
       (dockMode = "null" /\ lastOp' = <<"dock", "null", mode>>)
         => /\ dockMode' = mode
            /\ dockDisplayId' = getDisplayMatching(winBounds, displays).id
            /\ dockFullBounds' =
                 [width |-> winBounds.width,
                  height |-> IF IsNullish(appSettings.dock.shownHeightPx)
                             THEN winBounds.height
                             ELSE NumberOf(appSettings.dock.shownHeightPx),
                  y |-> winBounds.y]
            /\ ~dockShown'
            /\ dockHideRequestedAt' = 0
            /\ winAlwaysOnTop'
            /\ winMinSize'.width = NumberOf(appSettings.dock.hiddenWidthPx)
            /\ sentDockMode' = mode
            /\ winBounds' = HiddenRectangle'
            /\ dockTimer'
            /\ pollIntervals' = IF dockTimer THEN pollIntervals ELSE pollIntervals + 1]_vars

SessionStartedWithStoredHeight ==
  /\ lastOp = <<"dock", "null", "right">>
  /\ ~IsNullish(appSettings.dock.shownHeightPx)
  /\ dockFullBounds.height = NumberOf(appSettings.dock.shownHeightPx)
  /\ dockFullBounds.height # PX(720)
  /\ winBounds = HiddenRectangle
  /\ pollIntervals = 1

\* C29: with a dockFullBounds, the height calcDockTargets returns is
\* dockFullBounds.height held between 420 and the work area's height, and y is
\* dockFullBounds.y held between the work area's top and its bottom less that
\* height; the hidden rectangle has the y and the height of the shown one,
\* its x in left mode and its right edge in right mode.
VerticalGeometry ==
  (lastOp[1] = "targets" /\ dockFullBounds # Null)
    => LET wa == TargetDisplayOf(dockDisplayId).workArea
           h == Max2(PX(420), Min2(wa.height, dockFullBounds.height))
           t == calcDockTargets(winBounds, dockMode, TargetDisplayOf(dockDisplayId),
                                appSettings, dockFullBounds)
       IN  /\ winBounds = t[lastOp[2]]
           /\ winBounds.height = h
           /\ winBounds.y = Max2(wa.y, Min2(wa.y + wa.height - h, dockFullBounds.y))
           /\ t.hidden.y = t.shown.y
           /\ t.hidden.height = t.shown.height
           /\ dockMode = "left" => t.hidden.x = t.shown.x
           /\ dockMode = "right"
                => t.hidden.x + t.hidden.width = t.shown.x + t.shown.width

\* a remembered rectangle taller and lower than the 1920x1080 work area, on
\* the right: the hidden strip fills the height, its right edge 10 from the
\* work area's
TallStripOnTheRight ==
  /\ lastOp = <<"targets", "hidden">>
  /\ dockMode = "right"
  /\ dockDisplayId = 1
  /\ dockFullBounds = [width |-> PX(300), height |-> PX(5000), y |-> PX(2000)]
  /\ winBounds.y = 0
  /\ winBounds.height = PX(1080)
  /\ winBounds.x + winBounds.width = PX(1910)

\* C30: a move made by the user and handled while docked sets dockFullBounds.y
\* to the y the user gave the window, leaves dockFullBounds.width,
\* dockFullBounds.height and appSettings as they were, schedules no settings
\* write, and re-applies the rectangle of the current shown or hidden state,
\* which puts x back at the docked edge.
UserMoveMergesOnlyY ==
  [][(dockMode # "null" /\ dockInternalOps = 0 /\ StepIs({"userMove"}))
       => /\ dockFullBounds' = [dockFullBounds EXCEPT !.y = PX(50)]
          /\ appSettings' = appSettings
          /\ dockSettingsWriteTimer' = dockSettingsWriteTimer
          /\ writeTimeouts' = writeTimeouts
          /\ writesInFlight' = writesInFlight
          /\ dockShown' = dockShown
          /\ winBounds' = IF dockShown THEN ShownRectangle' ELSE HiddenRectangle'
          /\ dockInternalOps' = 1
          /\ LET wa == LockedWorkArea
             IN  IF dockMode = "left"
                 THEN winBounds'.x = wa.x + PX(DOCK_MARGIN_PX)
                 ELSE winBounds'.x + winBounds'.width
                        = wa.x + wa.width - PX(DOCK_MARGIN_PX)]_vars

\* the user dragged the revealed panel to (100, 50): it is back at the right
\* edge, 50 from the top, and the remembered width is still the pre-dock one
DraggedPanelBackAtEdge ==
  /\ lastOp = <<"userMove", "handled", "shown">>
  /\ dockFullBounds = [width |-> PX(1100), height |-> PX(720), y |-> PX(50)]
  /\ winBounds = Rect(1710, 50, 200, 720)

\* everything a focus or blur handler could touch, the hide-request marker
\* apart
AllButMarker ==
  <<appSettings, dockTimer, pollIntervals, dockMode, dockPinned, dockDisplayId,
    dockFullBounds, dockShown, dockPrevMinSize, dockInternalOps, dockLastHoverAt,
    dockSettingsWriteTimer, writeTimeouts, windowAlwaysOnTop, winBounds, winMinSize,
    winAlwaysOnTop, winDestroyed, echoMove, echoResize, releaseTimers, displays,
    sentDockMode, sentDockPinned, writesInFlight, settingsFile>>

\* C31: a focus event handled while docked sets hideRequestedAt to 0 and
\* changes nothing else; a focus or blur event handled in Center, and a blur
\* event handled while docked but hidden or pinned, change nothing at all.
FocusOnlyClearsMarker ==
  [][/\ (~winFocused /\ winFocused')
          => /\ AllButMarker' = AllButMarker
             /\ dockHideRequestedAt' = IF dockMode = "null" THEN dockHideRequestedAt ELSE 0
     /\ (winFocused /\ ~winFocused' /\ ~winDestroyed'
         /\ (dockMode = "null" \/ ~dockShown \/ dockPinned))
          => /\ AllButMarker' = AllButMarker
             /\ dockHideRequestedAt' = dockHideRequestedAt]_vars

\* the strip hidden by a blur has the focus again: the marker is cleared and
\* the strip is still hidden
FocusedWhileHidden ==
  /\ lastOp = <<"focus", "hidden">>
  /\ winFocused
  /\ dockMode = "right"
  /\ ~dockShown
  /\ dockHideRequestedAt = 0
  /\ winBounds = HiddenRectangle

\* C32: on a live window, the step of a handled dock request leaves the last
\* 'window:dockMode' message equal to the mode (left, right, or center), and
\* every step that changes the pinned flag leaves the last
\* 'window:dockPinned' message equal to the flag.
NotificationsTrackState ==
  [][/\ (StepIs({"dock"}) /\ ~winDestroyed')
          => sentDockMode' = IF dockMode' = "null" THEN "center" ELSE dockMode'
     /\ (dockPinned' # dockPinned /\ ~winDestroyed')
          => sentDockPinned' = dockPinned']_vars

\* docked on the right and pinned, the renderer told of both
PinnedAndTold ==
  /\ dockMode = "right"
  /\ sentDockMode = "right"
  /\ dockPinned
  /\ sentDockPinned
  /\ ~winDestroyed

ShownHasNoHideRequest ==
  dockShown => dockHideRequestedAt = 0

\* on the left, the strip hidden by a blur was revealed by a tick that found
\* the request pending and the cursor on the strip
RevealedWithRequestCleared ==
  /\ lastOp[1] = "tick"
  /\ Len(lastOp) = 3
  /\ lastOp[3] = "armed"
  /\ dockMode = "left"
  /\ dockShown
  /\ dockHideRequestedAt = 0
  /\ winBounds = ShownRectangle

\* C35: once no debounce timeout is pending and no write is under way, the
\* record written last to the settings file is the settings in memory.
PersistedIsCurrent ==
  (dockSettingsWriteTimer = Null /\ writeTimeouts = <<>> /\ writesInFlight = {}
   /\ settingsFile # NoFile)
    => settingsFile = JSONStringify(appSettings)

\* C36: in the state a poll tick leaves, a further poll tick with the same
\* cursor position finds the window at its target: it calls setBounds for
\* nothing (the bounds, the counter and the pending releases stay as they
\* are) and leaves shown, pinned and dockFullBounds unchanged.
TickFixedPoint ==
  (lastOp[1] = "tick" /\ dockMode # "null" /\ ~winDestroyed)
    => LET again == dockTick(Cur, Point(1919, 500), 1)
       IN  /\ again.winBounds = winBounds
           /\ again.dockInternalOps = dockInternalOps
           /\ again.releaseTimers = releaseTimers
           /\ again.echoMove = echoMove
           /\ again.echoResize = echoResize
           /\ again.dockShown = dockShown
           /\ again.dockPinned = dockPinned
           /\ again.dockFullBounds = dockFullBounds

\* a settings record with the hide delay put to d
DelayIn(settings, d) == [settings EXCEPT !.dock.hideDelayMs = Num(d)]

\* a program state in which every settings record (in memory, waiting for
\* the debounce timeout, being written, on disk) has the hide delay d
WithHideDelay(s, d) ==
  [s EXCEPT
     !.appSettings = DelayIn(@, d),
     !.dockSettingsWriteTimer = IF @ = Null THEN @ ELSE DelayIn(@, d),
     !.writeTimeouts = [i \in DOMAIN @ |-> [@[i] EXCEPT !.next = DelayIn(@, d)]],
     !.writesInFlight = {DelayIn(c, d) : c \in @},
     !.settingsFile = IF @ = NoFile THEN @ ELSE DelayIn(@, d)]

\* the runs of the handlers of a session from a state: each poll tick, blur,
\* focus, dock request, pin request and delivered move or resize event
HandlerRuns(s) ==
  [tick |-> [c \in SessionCursors |-> dockTick(s, c, 1)],
   blur |-> onBlur(s, 1),
   focus |-> onFocus(s),
   dock |-> [m \in {"left", "center", "right"} |-> windowDock(s, m, 1)],
   pin |-> [v \in BOOLEAN |-> setDockPinned(s, v)],
   move |-> onMove(s),
   resize |-> onResize(s)]

RestartsCoalesced ==
  /\ [](/\ watcher.loops <= 1
        /\ watcher.restarting <=> watcher.loops = 1
        /\ watcher.restarting <=> watcher.awaiting # 0
        /\ watcher.unawaited = 0
        /\ ~watcher.restarting => (~watcher.pending /\ watcher.unserved = {}))
  /\ (watcher.unserved # {}) ~> (watcher.unserved = {})

\* two requests met a restart in progress and each was followed by a cycle
\* of its own; the loop has finished
CoalescedRequestsServed ==
  /\ watcher.served = 2
  /\ watcher.requests = 3
  /\ watcher.spawns = 4
  /\ ~watcher.restarting
  /\ ~watcher.pending
====
